---- MODULE Spec2Model ----
(***************************************************************************)
(* Verification model of viem's batched eth_call scheduler                 *)
(* (src/actions/public/call.ts), of the multicall action                   *)
(* (src/actions/public/multicall.ts), of the ABI, RLP and signature        *)
(* codecs, of getContractAddress, sendTransaction and                      *)
(* watchPendingTransactions.                                               *)
(*                                                                         *)
(* Conventions                                                             *)
(*  - a Hex value `0x..` is the sequence of its bytes, '0x' is << >>, and  *)
(*    the length of the JavaScript string is HexLength(h) = 2 + 2*Len(h);  *)
(*  - an optional value is << >> (undefined) or <<v>>;                     *)
(*  - an error object is a record with a `name` field.                     *)
(***************************************************************************)
EXTENDS Integers, Sequences, FiniteSets, TLC

\* ------------------------------------------------------------------ bounds
MaxCalls == 3          \* number of call() invocations explored
CfgBatchSize == 3      \* client.batch.multicall.batchSize configured on client "c1"

\* -------------------------------------------------------- program constants
DefaultBatchSize == 1024   \* call.ts:200  `batchSize = 1024`
DefaultWait == 0           \* call.ts:200  `wait = 0`

\* ------------------------------------------------------------ small helpers
Undefined == << >>
Some(v) == <<v>>
IsDefined(o) == o # << >>
Get(o) == o[1]
OrElse(o, d) == IF o # << >> THEN o[1] ELSE d


RECURSIVE SumSeq(_)
SumSeq(s) == IF s = << >> THEN 0 ELSE s[1] + SumSeq(Tail(s))

MapSeq(s, F(_)) == [ i \in 1..Len(s) |-> F(s[i]) ]

\* `string.length` of a Hex string whose bytes are h
HexLength(h) == 2 + 2 * Len(h)

\* numberToHex(n): '0x' followed by the minimal hexadecimal digits of n,
\* kept here as the sequence of digit values (most significant first).
RECURSIVE HexDigits(_)
HexDigits(n) == IF n < 16 THEN <<n>> ELSE HexDigits(n \div 16) \o <<n % 16>>

numberToHex(n) == [tag |-> "", hex |-> HexDigits(n)]

\* a block tag, carried in the same shape as a hex block number
Tag(t) == [tag |-> t, hex |-> << >>]

\* ------------------------------------------------------------------ clients
\* A client is identified by its uid; its configuration is read through
\* ClientBatchMulticall (client.batch?.multicall) and ClientChain.
\*   c1: batch: { multicall: { batchSize: CfgBatchSize } }, chain with multicall3
\*   c2: batch: { multicall: true },                          chain with multicall3
\*   c3: batch: { multicall: true },                          no chain
\*   c4: batch: { multicall: true },                          chain without multicall3
\*   c5: no batch option,                                     chain with multicall3
ClientUids == {"c1", "c2", "c3", "c4", "c5"}

ClientBatchMulticall(uid) ==
  IF uid = "c1"
    THEN [kind |-> "object", batchSize |-> Some(CfgBatchSize), wait |-> Undefined]
  ELSE IF uid = "c5"
    THEN [kind |-> "undefined", batchSize |-> Undefined, wait |-> Undefined]
    ELSE [kind |-> "true", batchSize |-> Undefined, wait |-> Undefined]

Multicall3Address == "0xca11"

ClientChain(uid) ==
  IF uid = "c3"
    THEN Undefined
  ELSE IF uid = "c4"
    THEN Some([multicall3 |-> Undefined])
    ELSE Some([multicall3 |-> Some([address |-> Multicall3Address,
                                    blockCreated |-> Undefined])])

\* ------------------------------------------------------------------ errors
Err(n) == [name |-> n]
ClientChainNotConfiguredError == Err("ClientChainNotConfiguredError")
ChainDoesNotSupportContract == Err("ChainDoesNotSupportContract")
AbiDecodingZeroDataError == Err("AbiDecodingZeroDataError")
RawContractError(d) == [name |-> "RawContractError", data |-> d]

\* errors with which client.request can reject
TransportErrors == { Err("TransactionRejectedRpcError") }

\* getNodeError: an RPC rejection that carries a node error is replaced by the
\* specific node error (the fee-cap case of the getCallError test)
containsNodeError(err) == err.name = "TransactionRejectedRpcError"
getNodeError(err) == [name |-> "FeeCapTooHighError", cause |-> err]

\* getCallError(err, {...args, account, chain}): a CallExecutionError whose
\* cause is the (node) error and which carries the arguments of the call
getCallError(err, args) ==
  [name  |-> "CallExecutionError",
   cause |-> IF containsNodeError(err) THEN getNodeError(err) ELSE err,
   args  |-> args]

\* ------------------------------------------------------------------- inputs
AddrA == "0xaa"
AddrB == "0xbb"

\* first four bytes of aggregate3((address,bool,bytes)[]) : 0x82ad56cb
aggregate3Signature == <<130, 173, 86, 203>>

\* CallParameters: the arguments of one call()
CallArgs(uid, blockNumber, blockTag, to, data) ==
  [client |-> uid, account |-> Undefined, batch |-> Undefined,
   blockNumber |-> blockNumber, blockTag |-> blockTag,
   data |-> data, to |-> to, gas |-> Undefined]

\* calldata one byte larger than the configured batch size of client c1
Oversized == [j \in 1..(CfgBatchSize + 1) |-> 3]

CallInputs ==
  { CallArgs("c1", Undefined, Undefined, Some(AddrA), Some(<<1>>)),
    CallArgs("c1", Some(0), Undefined, Some(AddrB), Some(<<1>>)),
    CallArgs("c1", Undefined, Undefined, Some(AddrB), Some(<<2, 2>>)),
    CallArgs("c1", Undefined, Undefined, Some(AddrA), Some(Oversized)),
    CallArgs("c1", Some(1), Undefined, Some(AddrA), Some(<<1>>)),
    CallArgs("c2", Undefined, Undefined, Some(AddrA), Some(<<1>>)),
    CallArgs("c3", Undefined, Undefined, Some(AddrA), Some(<<1>>)) }

\* ------------------------------------------------------ call.ts, pure parts
\* `x ? numberToHex(x) : undefined` : 0n is falsy
blockNumberHexOf(blockNumber) ==
  IF IsDefined(blockNumber) /\ Get(blockNumber) # 0
    THEN Some(numberToHex(Get(blockNumber)))
    ELSE Undefined

\* `blockNumberHex || blockTag`
blockOf(blockNumber, blockTag) ==
  IF IsDefined(blockNumberHexOf(blockNumber))
    THEN Get(blockNumberHexOf(blockNumber))
    ELSE Tag(blockTag)

\* the formatted TransactionRequest of call()
formatRequest(args) ==
  [from |-> args.account, data |-> args.data, to |-> args.to, gas |-> args.gas]

IsPrefix(p, s) == Len(p) <= Len(s) /\ SubSeq(s, 1, Len(p)) = p

\* mutant: the other properties of the request are not looked at
shouldPerformMulticallDataAndTo(request) ==
  IF ~IsDefined(request.data) THEN FALSE
  ELSE IF IsPrefix(aggregate3Signature, Get(request.data)) THEN FALSE
  ELSE IF ~IsDefined(request.to) THEN FALSE
  ELSE TRUE

shouldPerformMulticall(request) ==
  IF ~IsDefined(request.data) THEN FALSE
  ELSE IF IsPrefix(aggregate3Signature, Get(request.data)) THEN FALSE
  ELSE IF ~IsDefined(request.to) THEN FALSE
  ELSE IF IsDefined(request.from) \/ IsDefined(request.gas) THEN FALSE
  ELSE TRUE

\* getChainContractAddress({ blockNumber, chain, contract: 'multicall3' })
getChainContractAddress(blockNumber, chain) ==
  LET contract == chain.multicall3 IN
  IF ~IsDefined(contract)
    THEN [ok |-> FALSE, error |-> ChainDoesNotSupportContract, address |-> ""]
  ELSE IF /\ IsDefined(blockNumber) /\ Get(blockNumber) # 0
          /\ IsDefined(Get(contract).blockCreated)
          /\ Get(Get(contract).blockCreated) > Get(blockNumber)
    THEN [ok |-> FALSE, error |-> ChainDoesNotSupportContract, address |-> ""]
  ELSE [ok |-> TRUE, error |-> Err(""), address |-> Get(contract).address]

\* `const { batchSize = 1024, wait = 0 } = typeof client.batch?.multicall === 'object' ? ... : {}`
batchSizeOf(uid) ==
  IF ClientBatchMulticall(uid).kind = "object"
    THEN OrElse(ClientBatchMulticall(uid).batchSize, DefaultBatchSize)
    ELSE DefaultBatchSize

waitOf(uid) ==
  IF ClientBatchMulticall(uid).kind = "object"
    THEN OrElse(ClientBatchMulticall(uid).wait, DefaultWait)
    ELSE DefaultWait

\* mutant: the reducer forgets the accumulator and measures the last request only
shouldSplitBatchLastOnly(args, batchSize) ==
  (HexLength(args[Len(args)].data) - 2) > batchSize * 2

\* shouldSplitBatch(args): size = sum of (data.length - 2); size > batchSize * 2
shouldSplitBatch(args, batchSize) ==
  SumSeq(MapSeq(args, LAMBDA a : HexLength(a.data) - 2)) > batchSize * 2

\* mutant: the calls are built in reverse order
aggregate3CallsReversed(requests) ==
  [ i \in 1..Len(requests) |->
      [allowFailure |-> TRUE,
       callData |-> requests[Len(requests) + 1 - i].data,
       target |-> requests[Len(requests) + 1 - i].to] ]

\* mutant: the first request is left out of the aggregate call
aggregate3CallsDropFirst(requests) ==
  [ i \in 1..(Len(requests) - 1) |->
      [allowFailure |-> TRUE, callData |-> requests[i + 1].data, target |-> requests[i + 1].to] ]

\* requests.map(request => ({ allowFailure: true, callData, target }))
aggregate3Calls(requests) ==
  MapSeq(requests, LAMBDA r : [allowFailure |-> TRUE, callData |-> r.data, target |-> r.to])

\* the eth_call issued by the batch executor `fn`
fn(ctx, requests) ==
  [method |-> "eth_call",
   functionName |-> "aggregate3",
   calls |-> aggregate3Calls(requests),
   to |-> ctx.multicallAddress,
   block |-> ctx.block]

\* -------------------------------------------------------------------- state
VARIABLES
  calls,           \* the call() invocations so far, in order; call i has args calls[i]
  meta,            \* per call, recorded at registration: tick, path taken, scheduling
                   \* id, whether the split predicate fired, whether the bucket of the
                   \* id was empty, number of timers it scheduled
  schedulerCache,  \* createBatchScheduler's Map: id -> pending items
  timers,          \* pending setTimeout(exec, wait) callbacks
  invocations,     \* executor invocations (aggregate3 eth_calls), in order of start
  direct,          \* per call: state of its direct eth_call
  promise,         \* per call: the scheduler promise (pendingPromise)
  settles,         \* per call: number of resolve/reject invocations on its promise
  result,          \* per call: outcome of call()
  burst,           \* TRUE while synchronous caller code is running
  tick,            \* number of synchronous bursts completed
  mc,              \* the multicall() invocation: its arguments, request and outcome
  codec,           \* an ABI encoding and decoding: parameters, values, data, result
  rlp,             \* an RLP encoding and decoding: item, data, result
  sig,             \* a hashFunction() invocation: definition and hash
  create,          \* a getContractAddress() invocation: options and address
  tx,              \* a sendTransaction() invocation: arguments, requests, outcome
  watch            \* a watchPendingTransactions() poller: filter, polls, deliveries

vars == <<calls, meta, schedulerCache, timers, invocations, direct, promise,
          settles, result, burst, tick, mc, codec, rlp, sig, create, tx, watch>>

\* the state of the components that call() and multicall() do not touch
otherVars == <<codec, rlp, sig, create, tx, watch>>

\* the state of call()
callVars == <<calls, meta, schedulerCache, timers, invocations, direct, promise,
              settles, result, burst, tick>>

\* everything but the state of one component
exceptCodec == <<callVars, mc, rlp, sig, create, tx, watch>>
exceptRlp == <<callVars, mc, codec, sig, create, tx, watch>>
exceptSig == <<callVars, mc, codec, rlp, create, tx, watch>>
exceptCreate == <<callVars, mc, codec, rlp, sig, tx, watch>>
exceptTx == <<callVars, mc, codec, rlp, sig, create, watch>>
exceptWatch == <<callVars, mc, codec, rlp, sig, create, tx>>

CallIds == 1..MaxCalls

\* ------------------------------------- createBatchScheduler (Map operations)
getScheduler(cache, id) == IF id \in DOMAIN cache THEN cache[id] ELSE << >>

flush(cache, id) == [k \in (DOMAIN cache) \ {id} |-> cache[k]]

getBatchedArgs(cache, id) == MapSeq(getScheduler(cache, id), LAMBDA it : it.args)

setScheduler(cache, id, item) ==
  [k \in (DOMAIN cache) \cup {id} |->
     IF k = id THEN Append(getScheduler(cache, id), item) ELSE cache[k]]

\* exec(): take the bucket of `id`, delete it, and hand its requests to fn.
\* st = [cache, invs]; the result is the state after the synchronous part.
exec(st, ctx) ==
  LET scheduler == getScheduler(st.cache, ctx.id)
      args == MapSeq(scheduler, LAMBDA it : it.args)
  IN IF Len(args) = 0
       THEN [cache |-> flush(st.cache, ctx.id), invs |-> st.invs]
       ELSE [cache |-> flush(st.cache, ctx.id),
             invs  |-> Append(st.invs,
                         [id |-> ctx.id,
                          scheduler |-> scheduler,
                          request |-> fn(ctx, args),
                          status |-> "inflight",
                          outcome |-> Err("")])]

\* schedule(args): the split predicate sees the collected requests plus the
\* new one; when it fires the requests collected so far are flushed at once
\* and the new request starts a new bucket with its own deferred flush.
schedule(st, tms, ctx, args, i) ==
  LET split == shouldSplitBatch(Append(getBatchedArgs(st.cache, ctx.id), args),
                                ctx.batchSize)
      st1 == IF split THEN exec(st, ctx) ELSE st
      hasActiveScheduler == Len(getScheduler(st1.cache, ctx.id)) > 0
      item == [args |-> args, pendingPromise |-> i]
  IN [cache  |-> setScheduler(st1.cache, ctx.id, item),
      invs   |-> st1.invs,
      timers |-> IF hasActiveScheduler THEN tms
                 ELSE Append(tms, [ctx |-> ctx, wait |-> ctx.wait]),
      split  |-> split]

\* ------------------------------------------- scheduleMulticall, up to await
\* mutant: the scheduler id also contains the target of the call
schedulerCtxKeyTo(a, multicallAddress) ==
  LET block == blockOf(a.blockNumber, OrElse(a.blockTag, "latest"))
  IN [id |-> <<a.client, block, a.to>>,
      uid |-> a.client,
      block |-> block,
      multicallAddress |-> multicallAddress,
      batchSize |-> batchSizeOf(a.client),
      wait |-> waitOf(a.client)]

\* what the closures handed to createBatchScheduler capture: the id
\* `${client.uid}.${block}` (a pair here: neither part contains a dot), the
\* block, the multicall address, batchSize and wait
schedulerCtx(a, multicallAddress) ==
  LET block == blockOf(a.blockNumber, OrElse(a.blockTag, "latest"))
  IN [id |-> <<a.client, block>>,
      uid |-> a.client,
      block |-> block,
      multicallAddress |-> multicallAddress,
      batchSize |-> batchSizeOf(a.client),
      wait |-> waitOf(a.client)]

\* Returns [ok |-> FALSE, error] when it throws before scheduling, otherwise
\* the scheduler state after `schedule({ data, to })`.
scheduleMulticallSync(st, tms, a, i) ==
  LET chain == ClientChain(a.client)
      resolved == IF IsDefined(chain)
                    THEN getChainContractAddress(a.blockNumber, Get(chain))
                    ELSE [ok |-> FALSE, error |-> ClientChainNotConfiguredError,
                          address |-> ""]
      ctx == schedulerCtx(a, resolved.address)
  IN IF ~resolved.ok
       THEN [ok |-> FALSE, error |-> resolved.error, id |-> ctx.id,
             cache |-> st.cache, invs |-> st.invs, timers |-> tms, split |-> FALSE]
       ELSE LET r == schedule(st, tms, ctx, [data |-> Get(a.data), to |-> Get(a.to)], i)
            IN [ok |-> TRUE, error |-> Err(""), id |-> ctx.id,
                cache |-> r.cache, invs |-> r.invs, timers |-> r.timers,
                split |-> r.split]

\* the direct eth_call of call(): params [request, blockNumberHex || blockTag]
directRequest(a) ==
  [method |-> "eth_call",
   request |-> formatRequest(a),
   block |-> blockOf(a.blockNumber, OrElse(a.blockTag, "latest"))]

Pending == [state |-> "pending"]
NoRequest == [state |-> "none"]

\* no call() and no multicall() has been made
InitCall ==
  /\ calls = << >>
  /\ meta = << >>
  /\ schedulerCache = [k \in {} |-> << >>]
  /\ timers = << >>
  /\ invocations = << >>
  /\ direct = [i \in CallIds |-> NoRequest]
  /\ promise = [i \in CallIds |-> NoRequest]
  /\ settles = [i \in CallIds |-> 0]
  /\ result = [i \in CallIds |-> NoRequest]
  /\ burst = FALSE
  /\ tick = 0
  /\ mc = [pc |-> "idle"]

Idle == [pc |-> "idle"]

Init ==
  /\ InitCall
  /\ codec = Idle
  /\ rlp = Idle
  /\ sig = Idle
  /\ create = Idle
  /\ tx = Idle
  /\ watch = Idle

\* mutant: only the error of a client without chain leads to the direct call
fallsBackOnlyUnconfigured(err) == err.name = ClientChainNotConfiguredError.name

\* the errors of the batch path after which call() goes on to the direct call
fallsBack(err) ==
  err.name \in {ClientChainNotConfiguredError.name, ChainDoesNotSupportContract.name}

\* call(client, args), from its start to its first suspension
Call(a) ==
  /\ Len(calls) < MaxCalls
  /\ LET i == Len(calls) + 1
         batch == OrElse(a.batch, ClientBatchMulticall(a.client).kind # "undefined")
         request == formatRequest(a)
         tryBatch == batch /\ shouldPerformMulticall(request)
         r == scheduleMulticallSync([cache |-> schedulerCache, invs |-> invocations],
                                    timers, a, i)
         scheduled == tryBatch /\ r.ok
         thrown == tryBatch /\ ~r.ok /\ ~fallsBack(r.error)
     IN /\ calls' = Append(calls, a)
        /\ meta' = Append(meta, [tick |-> tick,
                                 tried |-> tryBatch,
                                 path |-> IF scheduled THEN "batch"
                                          ELSE IF thrown THEN "thrown" ELSE "direct",
                                 id |-> IF scheduled THEN r.id ELSE << >>,
                                 split |-> scheduled /\ r.split,
                                 empty |-> scheduled /\
                                           getScheduler(schedulerCache, r.id) = << >>,
                                 timers |-> IF scheduled
                                              THEN Len(r.timers) - Len(timers) ELSE 0])
        /\ IF scheduled
             THEN /\ schedulerCache' = r.cache
                  /\ invocations' = r.invs
                  /\ timers' = r.timers
                  /\ promise' = [promise EXCEPT ![i] = Pending]
                  /\ direct' = direct
             ELSE \* batching not attempted, or it threw ClientChainNotConfiguredError
                  \* or ChainDoesNotSupportContract: fall through to the direct eth_call
                  /\ direct' = IF thrown THEN direct
                               ELSE [direct EXCEPT ![i] =
                                       [state |-> "inflight",
                                        request |-> directRequest(a)]]
                  /\ UNCHANGED <<schedulerCache, invocations, timers, promise>>
        /\ result' = [result EXCEPT ![i] =
                        IF thrown
                          THEN [state |-> "rejected",
                                error |-> getCallError(r.error, a)]
                          ELSE Pending]
        /\ settles' = settles
        /\ burst' = TRUE
        /\ tick' = tick
        /\ UNCHANGED <<mc, otherVars>>

\* the synchronous caller code returns to the event loop
Yield ==
  /\ burst
  /\ burst' = FALSE
  /\ tick' = tick + 1
  /\ UNCHANGED <<calls, meta, schedulerCache, timers, invocations, direct,
                 promise, settles, result, mc, otherVars>>

RemoveAt(s, n) == SubSeq(s, 1, n - 1) \o SubSeq(s, n + 1, Len(s))

\* a setTimeout(exec, wait) callback runs
TimerFire(n) ==
  /\ ~burst
  /\ n \in 1..Len(timers)
  /\ LET st == exec([cache |-> schedulerCache, invs |-> invocations], timers[n].ctx)
     IN /\ schedulerCache' = st.cache
        /\ invocations' = st.invs
  /\ timers' = RemoveAt(timers, n)
  /\ UNCHANGED <<calls, meta, direct, promise, settles, result, burst, tick, mc, otherVars>>

\* ---------------------------------------------------------------- the node
AddrByte(a) == IF a = AddrA THEN 170 ELSE 187

\* calldata of a function that returns nothing
ReturnsNothing == <<9>>

\* what executing (target, callData) on chain returns
ChainEcho(target, callData) ==
  IF callData = ReturnsNothing THEN << >> ELSE <<AddrByte(target)>> \o callData

\* the possible aggregate3 Result entries for one call
ChainResults(c) ==
  { [success |-> TRUE, returnData |-> ChainEcho(c.target, c.callData)],
    [success |-> FALSE, returnData |-> ChainEcho(c.target, c.callData)] }

\* all lists of one Result per call, in the order of the calls
RECURSIVE ResultLists(_)
ResultLists(cs) ==
  IF cs = << >> THEN { << >> }
  ELSE { <<h>> \o t : h \in ChainResults(cs[1]), t \in ResultLists(Tail(cs)) }

\* the responses of the node to an aggregate3 eth_call: a rejection, empty
\* data, or the encoded list of one Result per call, in order
AggregateResponses(request) ==
  { [kind |-> "error", error |-> e, zero |-> FALSE, results |-> << >>] : e \in TransportErrors }
  \cup { [kind |-> "data", error |-> Err(""), zero |-> TRUE, results |-> << >>] }
  \cup { [kind |-> "data", error |-> Err(""), zero |-> FALSE, results |-> rs] :
           rs \in ResultLists(request.calls) }

\* decodeFunctionResult({ abi: multicall3Abi, functionName: 'aggregate3', data: data || '0x' })
decodeAggregate3Result(resp) ==
  IF resp.zero THEN [ok |-> FALSE, error |-> AbiDecodingZeroDataError, value |-> << >>]
  ELSE [ok |-> TRUE, error |-> Err(""), value |-> resp.results]

\* outcome of the executor `fn` for a response of the node
fnOutcome(resp) ==
  IF resp.kind = "error"
    THEN [ok |-> FALSE, error |-> resp.error, value |-> << >>]
    ELSE decodeAggregate3Result(resp)

\* fn(args).then(data => scheduler.forEach(({ pendingPromise }, i) =>
\*   pendingPromise.resolve([data[i], data]))).catch(err => ...reject(err))
IndexIn(scheduler, p) == CHOOSE j \in 1..Len(scheduler) : scheduler[j].pendingPromise = p

settle(scheduler, out, p) ==
  IF out.ok
    THEN [state |-> "fulfilled", value |-> <<out.value[IndexIn(scheduler, p)], out.value>>]
    ELSE [state |-> "rejected", error |-> out.error]

\* mutant: the success flag of the entry is ignored
scheduleMulticallResumeNoCheck(p) ==
  IF p.state = "rejected" THEN p
  ELSE IF p.value[1].returnData = << >>
    THEN [state |-> "fulfilled", value |-> [data |-> Undefined]]
  ELSE [state |-> "fulfilled", value |-> [data |-> Some(p.value[1].returnData)]]

\* scheduleMulticall after `await schedule({ data, to })`
scheduleMulticallResume(p) ==
  IF p.state = "rejected" THEN p
  ELSE LET entry == p.value[1] IN
       IF ~entry.success
         THEN [state |-> "rejected", error |-> RawContractError(entry.returnData)]
       ELSE IF entry.returnData = << >>
         THEN [state |-> "fulfilled", value |-> [data |-> Undefined]]
       ELSE [state |-> "fulfilled", value |-> [data |-> Some(entry.returnData)]]

\* mutant: every rejection of the batch path is swallowed by the inner catch
callResumeSwallow(a, r) ==
  IF r.state = "rejected" THEN Pending ELSE r

\* mutant: the rejection is rethrown without the arguments of the call
callResumeBare(a, r) ==
  IF r.state = "rejected"
    THEN [state |-> "rejected", error |-> getCallError(r.error, << >>)]
    ELSE r

\* call() after `await scheduleMulticall(...)`: a rejection that is not a
\* chain-configuration error is rethrown and wrapped by getCallError
callResume(a, r) ==
  IF r.state = "rejected"
    THEN [state |-> "rejected", error |-> getCallError(r.error, a)]
    ELSE r

Members(inv) == { inv.scheduler[j].pendingPromise : j \in 1..Len(inv.scheduler) }

\* the aggregate3 eth_call of invocation k returns or fails
ExecutorReturn(k, resp) ==
  /\ ~burst
  /\ k \in 1..Len(invocations)
  /\ invocations[k].status = "inflight"
  /\ resp \in AggregateResponses(invocations[k].request)
  /\ LET inv == invocations[k]
         out == fnOutcome(resp)
     IN /\ invocations' = [invocations EXCEPT
                             ![k].status = IF out.ok THEN "fulfilled" ELSE "rejected",
                             ![k].outcome = out]
        /\ promise' = [i \in CallIds |->
                         IF i \in Members(inv) THEN settle(inv.scheduler, out, i)
                         ELSE promise[i]]
        /\ settles' = [i \in CallIds |->
                         IF i \in Members(inv) THEN settles[i] + 1 ELSE settles[i]]
        /\ result' = [i \in CallIds |->
                         IF i \in Members(inv)
                           THEN callResume(calls[i],
                                  scheduleMulticallResume(settle(inv.scheduler, out, i)))
                           ELSE result[i]]
  /\ UNCHANGED <<calls, meta, schedulerCache, timers, direct, burst, tick, mc, otherVars>>

\* the responses of the node to a direct eth_call
DirectResponses(request) ==
  { [kind |-> "error", error |-> e, data |-> << >>] : e \in TransportErrors }
  \cup { [kind |-> "data", error |-> Err(""), data |-> d] :
           d \in { << >>, ChainEcho(OrElse(request.to, AddrA),
                                    OrElse(request.data, << >>)) } }

\* mutant: the direct path hands empty return bytes on as data
directResumeKeepEmpty(a, resp) ==
  IF resp.kind = "error"
    THEN [state |-> "rejected", error |-> getCallError(resp.error, a)]
    ELSE [state |-> "fulfilled", value |-> [data |-> Some(resp.data)]]

\* call() after `await client.request({ method: 'eth_call', ... })`
directResume(a, resp) ==
  IF resp.kind = "error"
    THEN [state |-> "rejected", error |-> getCallError(resp.error, a)]
  ELSE IF resp.data = << >>
    THEN [state |-> "fulfilled", value |-> [data |-> Undefined]]
  ELSE [state |-> "fulfilled", value |-> [data |-> Some(resp.data)]]

\* the direct eth_call of call i returns or fails
DirectReturn(i, resp) ==
  /\ ~burst
  /\ i \in 1..Len(calls)
  /\ direct[i].state = "inflight"
  /\ resp \in DirectResponses(direct[i].request.request)
  /\ direct' = [direct EXCEPT ![i] = [state |-> "done", request |-> @.request,
                                       response |-> resp]]
  /\ result' = [result EXCEPT ![i] = directResume(calls[i], resp)]
  /\ UNCHANGED <<calls, meta, schedulerCache, timers, invocations, promise,
                 settles, burst, tick, mc, otherVars>>

Next ==
  \/ \E a \in CallInputs : Call(a)
  \/ Yield
  \/ \E n \in 1..Len(timers) : TimerFire(n)
  \/ \E k \in 1..Len(invocations) :
       \E resp \in AggregateResponses(invocations[k].request) : ExecutorReturn(k, resp)
  \/ \E i \in 1..Len(calls) :
       /\ direct[i].state = "inflight"
       /\ \E resp \in DirectResponses(direct[i].request.request) : DirectReturn(i, resp)

Spec == Init /\ [][Next]_vars

\* ================================================================ multicall
MaxContracts == 2      \* number of entries of `contracts` explored

\* a 32-byte big-endian word holding a value below 2^31
Word(n) ==
  [ j \in 1..32 |-> IF j <= 28 THEN 0 ELSE (n \div (256 ^ (32 - j))) % 256 ]

\* big-endian value of a sequence of bytes
RECURSIVE BytesToNumber(_)
BytesToNumber(bs) ==
  IF bs = << >> THEN 0
  ELSE BytesToNumber(SubSeq(bs, 1, Len(bs) - 1)) * 256 + bs[Len(bs)]

\* the ABI used by the modelled contracts
\*   balanceOf(address) returns (uint256)   selector 0x70a08231
\*   paused() returns (bool)                selector 0x5c975abb
TokenAbi ==
  { [name |-> "balanceOf", inputs |-> <<"address">>, outputs |-> <<"uint256">>,
     selector |-> <<112, 160, 130, 49>>],
    [name |-> "paused", inputs |-> << >>, outputs |-> <<"bool">>,
     selector |-> <<92, 151, 90, 187>>] }

Concat(ss) ==
  LET F[n \in 0..Len(ss)] == IF n = 0 THEN << >> ELSE F[n - 1] \o ss[n] IN F[Len(ss)]

\* encodeFunctionData({ abi, args, functionName }): selector ++ encoded args
encodeFunctionData(abi, functionName, args) ==
  IF ~\E f \in abi : f.name = functionName
    THEN [ok |-> FALSE, error |-> Err("AbiFunctionNotFoundError"), data |-> << >>]
  ELSE LET f == CHOOSE g \in abi : g.name = functionName IN
       IF Len(f.inputs) # Len(args)
         THEN [ok |-> FALSE, error |-> Err("AbiEncodingLengthMismatchError"), data |-> << >>]
       ELSE [ok |-> TRUE, error |-> Err(""),
             data |-> f.selector \o Concat([ j \in 1..Len(args) |-> Word(args[j]) ])]

\* decodeFunctionResult({ abi, data, functionName }) for a single output
decodeFunctionResult(abi, functionName, data) ==
  IF ~\E f \in abi : f.name = functionName
    THEN [ok |-> FALSE, error |-> Err("AbiFunctionNotFoundError"), value |-> << >>]
  ELSE LET f == CHOOSE g \in abi : g.name = functionName IN
       IF data = << >>
         THEN [ok |-> FALSE, error |-> AbiDecodingZeroDataError, value |-> << >>]
       ELSE IF Len(data) % 32 # 0
         THEN [ok |-> FALSE, error |-> Err("AbiDecodingDataSizeInvalidError"), value |-> << >>]
       ELSE [ok |-> TRUE, error |-> Err(""),
             value |-> IF f.outputs[1] = "bool"
                         THEN <<"bool", BytesToNumber(SubSeq(data, 1, 32)) # 0>>
                         ELSE <<"uint256", BytesToNumber(SubSeq(data, 1, 32))>>]

\* getContractError(err, { abi, address, args, docsPath, functionName })
getContractError(err, c) ==
  [name |-> "ContractFunctionExecutionError",
   cause |-> err,
   contractAddress |-> c.address,
   functionName |-> c.functionName,
   args |-> c.args]

\* the contract configurations offered to multicall
ContractInputs ==
  { [abi |-> TokenAbi, address |-> AddrA, functionName |-> "balanceOf", args |-> <<7>>],
    [abi |-> TokenAbi, address |-> AddrB, functionName |-> "paused", args |-> << >>],
    [abi |-> TokenAbi, address |-> AddrA, functionName |-> "balanceOf", args |-> << >>],
    [abi |-> TokenAbi, address |-> AddrB, functionName |-> "missing", args |-> << >>] }

ContractLists == UNION { [1..n -> ContractInputs] : n \in 0..MaxContracts }

MulticallInputs ==
  [client : {"c1", "c3"},
   allowFailure : {Undefined, Some(TRUE), Some(FALSE)},
   blockNumber : {Undefined},
   blockTag : {Undefined},
   contracts : ContractLists,
   multicallAddress : {Undefined}]

\* mutant: the caller's allowFailure option is passed on to aggregate3
multicallCallPassOption(c, allowFailure) ==
  LET enc == encodeFunctionData(c.abi, c.functionName, c.args) IN
  IF enc.ok
    THEN [ok |-> TRUE, error |-> Err(""),
          call |-> [allowFailure |-> allowFailure, callData |-> enc.data, target |-> c.address]]
  ELSE IF ~allowFailure
    THEN [ok |-> FALSE, error |-> getContractError(enc.error, c),
          call |-> [allowFailure |-> allowFailure, callData |-> << >>, target |-> c.address]]
  ELSE [ok |-> TRUE, error |-> Err(""),
        call |-> [allowFailure |-> allowFailure, callData |-> << >>, target |-> c.address]]

\* one step of `contracts.map(...)` (multicall.ts:113-140): the aggregate3
\* call of a contract, with placeholder calldata '0x' when encoding its
\* arguments fails, or the error thrown when allowFailure is false
multicallCall(c, allowFailure) ==
  LET enc == encodeFunctionData(c.abi, c.functionName, c.args) IN
  IF enc.ok
    THEN [ok |-> TRUE, error |-> Err(""),
          call |-> [allowFailure |-> TRUE, callData |-> enc.data, target |-> c.address]]
  ELSE IF ~allowFailure
    THEN [ok |-> FALSE, error |-> getContractError(enc.error, c),
          call |-> [allowFailure |-> TRUE, callData |-> << >>, target |-> c.address]]
  ELSE [ok |-> TRUE, error |-> Err(""),
        call |-> [allowFailure |-> TRUE, callData |-> << >>, target |-> c.address]]

\* mutant: only a reverted call counts as a failure; an undecodable
\* returnData is reported as a success without a result
multicallResultNoDecodeCheck(c, call, entry, allowFailure) ==
  IF call.callData = << >> \/ ~entry.success
    THEN [ok |-> allowFailure,
          value |-> [status |-> "failure", result |-> Undefined,
                     error |-> getContractError(RawContractError(entry.returnData), c)]]
  ELSE LET dec == decodeFunctionResult(c.abi, c.functionName, entry.returnData) IN
       [ok |-> TRUE,
        value |-> [status |-> "success",
                   result |-> IF dec.ok THEN Some(dec.value) ELSE Undefined,
                   error |-> Err("")]]

\* one step of `results.map(...)` (multicall.ts:149-172): the entry returned
\* for contract c, or (ok = FALSE) the error thrown when allowFailure is false
multicallResult(c, call, entry, allowFailure) ==
  LET dec == decodeFunctionResult(c.abi, c.functionName, entry.returnData)
      thrown == IF call.callData = << >> THEN Some(AbiDecodingZeroDataError)
                ELSE IF ~entry.success THEN Some(RawContractError(entry.returnData))
                ELSE IF ~dec.ok THEN Some(dec.error)
                ELSE Undefined
  IN IF IsDefined(thrown)
       THEN [ok |-> allowFailure,
             value |-> [status |-> "failure", result |-> Undefined,
                        error |-> getContractError(Get(thrown), c)]]
       ELSE [ok |-> TRUE,
             value |-> [status |-> "success", result |-> Some(dec.value),
                        error |-> Err("")]]

\* mutant: the map runs to its end and the error of the last failing step is thrown
LastThrow(steps) ==
  IF \E j \in 1..Len(steps) : ~steps[j].ok
    THEN CHOOSE j \in 1..Len(steps) :
           ~steps[j].ok /\ \A j2 \in (j + 1)..Len(steps) : steps[j2].ok
    ELSE 0

\* the smallest index whose step throws, or 0
FirstThrow(steps) ==
  IF \E j \in 1..Len(steps) : ~steps[j].ok
    THEN CHOOSE j \in 1..Len(steps) :
           ~steps[j].ok /\ \A j2 \in 1..(j - 1) : steps[j2].ok
    ELSE 0

Multicall3AggregateContract(address) ==
  [abi |-> "multicall3Abi", address |-> address, functionName |-> "aggregate3", args |-> << >>]

\* multicall(client, args), from its start to `await readContract(...)`
MulticallStart(args) ==
  /\ mc.pc = "idle"
  /\ LET allowFailure == OrElse(args.allowFailure, TRUE)
         chain == ClientChain(args.client)
         resolved ==
           IF IsDefined(args.multicallAddress)
             THEN [ok |-> TRUE, error |-> Err(""), address |-> Get(args.multicallAddress)]
           ELSE IF ~IsDefined(chain)
             THEN [ok |-> FALSE,
                   error |-> Err("client chain not configured. multicallAddress is required."),
                   address |-> ""]
           ELSE getChainContractAddress(args.blockNumber, Get(chain))
         steps == [ j \in 1..Len(args.contracts) |->
                      multicallCall(args.contracts[j], allowFailure) ]
         calls_ == [ j \in 1..Len(steps) |-> steps[j].call ]
     IN mc' =
          IF ~resolved.ok
            THEN [pc |-> "done", args |-> args,
                  outcome |-> [state |-> "rejected", error |-> resolved.error]]
          ELSE IF FirstThrow(steps) # 0
            THEN [pc |-> "done", args |-> args,
                  outcome |-> [state |-> "rejected", error |-> steps[FirstThrow(steps)].error]]
          ELSE [pc |-> "requested", args |-> args, calls |-> calls_,
                request |-> [method |-> "eth_call",
                             functionName |-> "aggregate3",
                             calls |-> calls_,
                             to |-> resolved.address,
                             block |-> blockOf(args.blockNumber,
                                               OrElse(args.blockTag, "latest"))]]
  /\ UNCHANGED <<calls, meta, schedulerCache, timers, invocations, direct, promise,
                 settles, result, burst, tick, otherVars>>

\* the Result entries the node may return for one call of a multicall
MulticallEntryResults ==
  { [success |-> TRUE, returnData |-> Word(1)],
    [success |-> FALSE, returnData |-> <<8>>],
    [success |-> TRUE, returnData |-> << >>],
    [success |-> TRUE, returnData |-> <<1>>] }

\* the responses of the node to the aggregate3 eth_call of multicall: a
\* rejection, empty data, or one Result per call
MulticallResponses(n) ==
  { [kind |-> "error", error |-> e, zero |-> FALSE, results |-> << >>] : e \in TransportErrors }
  \cup { [kind |-> "data", error |-> Err(""), zero |-> TRUE, results |-> << >>] }
  \cup { [kind |-> "data", error |-> Err(""), zero |-> FALSE, results |-> rs] :
           rs \in [1..n -> MulticallEntryResults] }

\* readContract(client, { abi: multicall3Abi, functionName: 'aggregate3', ... }):
\* the decoded results, or the error of call() wrapped by getContractError
readContractOutcome(client, address, resp) ==
  LET out == fnOutcome(resp) IN
  IF out.ok THEN out
  ELSE [ok |-> FALSE, value |-> << >>,
        error |-> getContractError(
                    IF resp.kind = "error"
                      THEN getCallError(resp.error, [client |-> client, to |-> address])
                      ELSE out.error,
                    Multicall3AggregateContract(address))]

\* multicall after `await readContract(...)`
MulticallReturn(resp) ==
  /\ mc.pc = "requested"
  /\ resp \in MulticallResponses(Len(mc.calls))
  /\ LET allowFailure == OrElse(mc.args.allowFailure, TRUE)
         out == readContractOutcome(mc.args.client, mc.request.to, resp)
         steps == [ j \in 1..Len(out.value) |->
                      multicallResult(mc.args.contracts[j], mc.calls[j], out.value[j],
                                      allowFailure) ]
     IN mc' = [pc |-> "done",
               args |-> mc.args,
               calls |-> mc.calls,
               request |-> mc.request,
               response |-> resp,
               outcome |->
                    IF ~out.ok THEN [state |-> "rejected", error |-> out.error]
                    ELSE IF FirstThrow(steps) # 0
                      THEN [state |-> "rejected",
                            error |-> steps[FirstThrow(steps)].value.error]
                    ELSE [state |-> "fulfilled",
                          value |-> [ j \in 1..Len(steps) |->
                                        IF allowFailure
                                          THEN steps[j].value
                                          ELSE steps[j].value.result ]]]
  /\ UNCHANGED <<calls, meta, schedulerCache, timers, invocations, direct, promise,
                 settles, result, burst, tick, otherVars>>

NextMulticall ==
  \/ \E args \in MulticallInputs : MulticallStart(args)
  \/ \E resp \in MulticallResponses(IF mc.pc = "requested" THEN Len(mc.calls) ELSE 0) :
       MulticallReturn(resp)

SpecMulticall == Init /\ [][NextMulticall]_vars

\* a program that either issues batched calls or one multicall; the two
\* share no state (the aggregate3 eth_call of multicall is never batched,
\* its calldata starts with aggregate3Signature)
NextAggregate ==
  \/ mc.pc = "idle" /\ Next
  \/ calls = << >> /\ NextMulticall

SpecAggregate == Init /\ [][NextAggregate]_vars

\* ------------------------------------------------- vocabulary of the claims
Registered == 1..Len(calls)
BatchCalls == { i \in Registered : meta[i].path = "batch" }

\* the places (id, position) of the scheduler cache that hold call i
CachePlaces(i) ==
  UNION { { <<id, j>> : j \in { n \in 1..Len(schedulerCache[id]) :
                                  schedulerCache[id][n].pendingPromise = i } } :
          id \in DOMAIN schedulerCache }

\* the calls stored under any key of the scheduler cache
CacheItems == { i \in Registered : CachePlaces(i) # {} }

\* the executor invocations whose bucket holds call i
InvsOf(i) == { k \in 1..Len(invocations) : i \in Members(invocations[k]) }


\* C1: every call registered with the batch scheduler is settled exactly once:
\* its promise is resolved with its own entry or rejected, never both and
\* never twice, it is pending only while it waits in the bucket of its key or
\* in an executor invocation that has not returned, and once the invocation
\* of its bucket has returned or failed neither the scheduler promise nor
\* the promise of call() is pending.
AllSettledOnce ==
  \A i \in BatchCalls :
    /\ settles[i] <= 1
    /\ (settles[i] = 0) <=> (promise[i].state = "pending")
    /\ promise[i].state = "pending" =>
         /\ result[i].state = "pending"
         /\ \/ Cardinality(CachePlaces(i)) = 1 /\ InvsOf(i) = {}
            \/ /\ i \notin CacheItems
               /\ \E k \in InvsOf(i) : InvsOf(i) = {k} /\ invocations[k].status = "inflight"
    /\ \A k \in InvsOf(i) :
         invocations[k].status # "inflight" =>
           /\ settles[i] = 1
           /\ result[i].state \in {"fulfilled", "rejected"}
           /\ promise[i].state = "fulfilled" =>
                /\ invocations[k].status = "fulfilled"
                /\ promise[i].value[1] =
                     invocations[k].outcome.value[IndexIn(invocations[k].scheduler, i)]
           /\ promise[i].state = "rejected" => invocations[k].status = "rejected"

\* C1 witness: two calls flushed together have both been settled, one
\* resolved bucket and one rejected bucket exist
AllSettledOnceWitness ==
  /\ \E k \in 1..Len(invocations) :
       /\ invocations[k].status = "fulfilled"
       /\ Len(invocations[k].scheduler) = 2
       /\ \A i \in Members(invocations[k]) : settles[i] = 1 /\ result[i].state # "pending"
  /\ \E k \in 1..Len(invocations) :
       /\ invocations[k].status = "rejected"
       /\ \A i \in Members(invocations[k]) : settles[i] = 1 /\ result[i].state = "rejected"

\* the entry of the aggregate response at the position of call i in invocation k
EntryOf(k, i) == invocations[k].outcome.value[IndexIn(invocations[k].scheduler, i)]

\* C2: when the aggregated executor call succeeds, each batched call settles
\* by its own response entry only: call() fails, with cause RawContractError
\* carrying the entry's returnData, iff the entry has success = false, and
\* otherwise succeeds with the entry's returnData ('0x' read as undefined).
PerCallOutcome ==
  \A k \in 1..Len(invocations) :
    invocations[k].status = "fulfilled" =>
      \A i \in Members(invocations[k]) :
        LET entry == EntryOf(k, i) IN
        /\ (result[i].state = "rejected") <=> ~entry.success
        /\ ~entry.success =>
             /\ result[i].error.name = "CallExecutionError"
             /\ result[i].error.cause = RawContractError(entry.returnData)
        /\ entry.success =>
             /\ result[i].state = "fulfilled"
             /\ result[i].value.data =
                  IF entry.returnData = << >> THEN Undefined ELSE Some(entry.returnData)

\* C2 witness: three calls registered in one tick, executor result
\* [success, failure, success], the second caller alone has failed
PerCallOutcomeWitness ==
  \E k \in 1..Len(invocations) :
    LET inv == invocations[k] IN
    /\ inv.status = "fulfilled"
    /\ Len(inv.scheduler) = 3
    /\ \A j \in 1..3 : meta[inv.scheduler[j].pendingPromise].tick = meta[1].tick
    /\ [j \in 1..3 |-> inv.outcome.value[j].success] = <<TRUE, FALSE, TRUE>>
    /\ [j \in 1..3 |-> result[inv.scheduler[j].pendingPromise].state]
         = <<"fulfilled", "rejected", "fulfilled">>

\* C3: within one flushed bucket the executor receives the requests in
\* registration order, and the i-th entry of the response is delivered to the
\* i-th registered caller: the entry a caller receives is the one the node
\* produced for that caller's own (target, calldata).
OrderedDemux ==
  \A k \in 1..Len(invocations) :
    LET inv == invocations[k] IN
    /\ Len(inv.request.calls) = Len(inv.scheduler)
    /\ \A j \in 1..Len(inv.scheduler) :
         LET i == inv.scheduler[j].pendingPromise IN
         /\ \A j2 \in 1..Len(inv.scheduler) :
              j < j2 => i < inv.scheduler[j2].pendingPromise
         /\ inv.request.calls[j].target = Get(calls[i].to)
         /\ inv.request.calls[j].callData = Get(calls[i].data)
         /\ inv.status = "fulfilled" =>
              /\ promise[i].value[1] = inv.outcome.value[j]
              /\ promise[i].value[1].returnData =
                   ChainEcho(Get(calls[i].to), Get(calls[i].data))

\* C3 witness: a bucket whose first two calls differ in (target, calldata),
\* under a key on which a split has occurred, has been demultiplexed
OrderedDemuxWitness ==
  \E k \in 1..Len(invocations) :
    LET inv == invocations[k] IN
    /\ inv.status = "fulfilled"
    /\ Len(inv.scheduler) >= 2
    /\ inv.scheduler[1].args # inv.scheduler[2].args
    /\ \A i \in Members(inv) : promise[i].state = "fulfilled"
    /\ \E i \in BatchCalls : meta[i].split /\ meta[i].id = inv.id

\* C4: if the executor fails outright, every call of that flushed bucket is
\* rejected with that same cause, a call of another bucket is rejected only
\* by the failure of its own bucket, and call() surfaces the cause wrapped by
\* getCallError with the arguments of that call.
ExecutorFailure ==
  /\ \A k \in 1..Len(invocations) :
       invocations[k].status = "rejected" =>
         \A i \in Members(invocations[k]) :
           /\ promise[i] = [state |-> "rejected", error |-> invocations[k].outcome.error]
           /\ result[i] = [state |-> "rejected",
                           error |-> getCallError(invocations[k].outcome.error, calls[i])]
  /\ \A i \in BatchCalls :
       promise[i].state = "rejected" =>
         \E k \in InvsOf(i) : invocations[k].status = "rejected"

\* C4 witness: a bucket of two calls has failed while an earlier bucket of the
\* same key was resolved, and a failure to decode the response has occurred
ExecutorFailureWitness ==
  \E k \in 1..Len(invocations), k2 \in 1..Len(invocations) :
    /\ invocations[k].status = "rejected"
    /\ invocations[k].outcome.error = AbiDecodingZeroDataError
    /\ Len(invocations[k].scheduler) = 2
    /\ \A i \in Members(invocations[k]) : result[i].state = "rejected"
    /\ invocations[k2].id = invocations[k].id
    /\ invocations[k2].status = "fulfilled"
    /\ \A i \in Members(invocations[k2]) : promise[i].state = "fulfilled"

\* the scheduling key of a call: its client and its block
KeyOf(a) == <<a.client, blockOf(a.blockNumber, OrElse(a.blockTag, "latest"))>>

\* no registration under the key of call i after i and up to j made the split
\* predicate fire
NoSplitBetween(i, j) ==
  \A n \in (i + 1)..j : KeyOf(calls[n]) = KeyOf(calls[i]) => ~meta[n].split

\* C5: calls registered under one scheduling key in one synchronous burst
\* without the split predicate firing are flushed together: they wait in the
\* same bucket and then sit in the same single executor invocation; a
\* registration that finds the bucket of its key empty schedules exactly one
\* deferred flush, with delay `wait` (default 0), a later one schedules none;
\* and while the burst is running its registrations have not been flushed.
SameBurstOneFlush ==
  /\ \A i \in BatchCalls, j \in BatchCalls :
       ( /\ i < j
         /\ KeyOf(calls[i]) = KeyOf(calls[j])
         /\ meta[i].tick = meta[j].tick
         /\ NoSplitBetween(i, j) ) =>
           /\ InvsOf(i) = InvsOf(j)
           /\ Cardinality(InvsOf(i)) <= 1
           /\ { pl[1] : pl \in CachePlaces(i) } = { pl[1] : pl \in CachePlaces(j) }
  /\ \A i \in BatchCalls :
       ~meta[i].split => meta[i].timers = IF meta[i].empty THEN 1 ELSE 0
  /\ \A n \in 1..Len(timers) :
       timers[n].wait = OrElse(ClientBatchMulticall(timers[n].ctx.uid).wait, DefaultWait)
  /\ \A i \in BatchCalls :
       (burst /\ meta[i].tick = tick /\ NoSplitBetween(i, Len(calls))) => i \in CacheItems

\* C5 witness: three calls with different targets, registered in one burst
\* under one key without a split, are in one executor invocation; the first
\* scheduled the only timer
SameBurstOneFlushWitness ==
  /\ Len(calls) = 3
  /\ \A i \in 1..3 : i \in BatchCalls /\ ~meta[i].split /\ meta[i].tick = meta[1].tick
  /\ calls[1].to # calls[2].to
  /\ <<meta[1].timers, meta[2].timers, meta[3].timers>> = <<1, 0, 0>>
  /\ \E k \in 1..Len(invocations) : Members(invocations[k]) = {1, 2, 3}

\* calldata bytes of an executor invocation: sum over requests of (hex length - 2) / 2
InvBytes(inv) ==
  SumSeq([ j \in 1..Len(inv.request.calls) |->
             (HexLength(inv.request.calls[j].callData) - 2) \div 2 ])

CallBytes(i) == (HexLength(Get(calls[i].data)) - 2) \div 2

\* the calls registered under the key of call i in the tick of call i
TickGroup(i) ==
  { j \in BatchCalls : KeyOf(calls[j]) = KeyOf(calls[i]) /\ meta[j].tick = meta[i].tick }

\* cumulative calldata bytes of a set of calls
RECURSIVE GroupBytes(_)
GroupBytes(S) ==
  IF S = {} THEN 0
  ELSE LET x == CHOOSE y \in S : TRUE IN CallBytes(x) + GroupBytes(S \ {x})

\* C6 as stated: the requests of every executor invocation have total
\* calldata size at most batchSize, and calls of one key and tick whose
\* cumulative calldata exceeds batchSize are sent in at least two invocations.
BudgetRespected ==
  /\ \A k \in 1..Len(invocations) :
       InvBytes(invocations[k]) <= batchSizeOf(invocations[k].id[1])
  /\ \A i \in BatchCalls :
       ( /\ TickGroup(i) \cap CacheItems = {}
         /\ GroupBytes(TickGroup(i)) > batchSizeOf(calls[i].client) ) =>
           Cardinality(UNION { InvsOf(j) : j \in TickGroup(i) }) >= 2

\* C6 amended: every executor invocation of more than one request has total
\* calldata size at most batchSize (a request that alone exceeds batchSize is
\* sent alone), and two or more calls of one key and tick whose cumulative
\* calldata exceeds batchSize are sent in at least two invocations.
BudgetRespectedUnlessSingle ==
  /\ \A k \in 1..Len(invocations) :
       \/ Len(invocations[k].request.calls) = 1
       \/ InvBytes(invocations[k]) <= batchSizeOf(invocations[k].id[1])
  /\ \A k \in 1..Len(invocations) :
       InvBytes(invocations[k]) > batchSizeOf(invocations[k].id[1]) =>
         \A i \in Members(invocations[k]) : CallBytes(i) > batchSizeOf(calls[i].client)
  /\ \A i \in BatchCalls :
       ( /\ TickGroup(i) \cap CacheItems = {}
         /\ Cardinality(TickGroup(i)) >= 2
         /\ GroupBytes(TickGroup(i)) > batchSizeOf(calls[i].client) ) =>
           Cardinality(UNION { InvsOf(j) : j \in TickGroup(i) }) >= 2

\* C6 witness: three calls of one key and tick, each within the budget and
\* together over it, were sent in two invocations, the first with two requests
BudgetRespectedWitness ==
  /\ Len(calls) = 3
  /\ TickGroup(1) = {1, 2, 3}
  /\ \A i \in 1..3 : CallBytes(i) <= batchSizeOf(calls[i].client)
  /\ GroupBytes({1, 2, 3}) > batchSizeOf(calls[1].client)
  /\ Len(invocations) = 2
  /\ Members(invocations[1]) = {1, 2}
  /\ Members(invocations[2]) = {3}
  /\ meta[3].split

\* the block reference of a call as C7 defines it: the hex blockNumber if one
\* is given, else the blockTag
BlockRef(a) ==
  IF IsDefined(a.blockNumber)
    THEN numberToHex(Get(a.blockNumber))
    ELSE Tag(OrElse(a.blockTag, "latest"))

\* C7 as stated: the calls of one executor invocation share the client and the
\* block reference (hex blockNumber if given, else blockTag), and the
\* aggregated eth_call is issued at that block reference.
SameClientAndBlock ==
  \A k \in 1..Len(invocations) :
    \A i \in Members(invocations[k]) :
      /\ invocations[k].request.block = BlockRef(calls[i])
      /\ \A j \in Members(invocations[k]) :
           /\ calls[i].client = calls[j].client
           /\ BlockRef(calls[i]) = BlockRef(calls[j])

\* C8 (state part): a registered call is at every moment in exactly one place,
\* the bucket stored under its key or one executor invocation, never in two
\* flushes; a stored bucket has a deferred flush scheduled for its key; the
\* request of every member of a flushed bucket is in the list handed to the
\* executor; and no member of a flushed bucket is still stored under the key.
BucketCycleState ==
  /\ \A i \in BatchCalls :
       /\ Cardinality(CachePlaces(i)) + Cardinality(InvsOf(i)) = 1
       /\ \A pl \in CachePlaces(i) :
            /\ pl[1] = KeyOf(calls[i])
            /\ \E n \in 1..Len(timers) : timers[n].ctx.id = pl[1]
  /\ \A k \in 1..Len(invocations) :
       LET inv == invocations[k] IN
       /\ Members(inv) \cap CacheItems = {}
       /\ Len(inv.scheduler) >= 1
       /\ \A j \in 1..Len(inv.scheduler) :
            /\ j <= Len(inv.request.calls)
            /\ inv.request.calls[j].callData = inv.scheduler[j].args.data
            /\ inv.request.calls[j].target = inv.scheduler[j].args.to
  /\ \A id \in DOMAIN schedulerCache : schedulerCache[id] # << >>

\* C8 (step part): a bucket that has started flushing never changes: a later
\* registration under its key is not added to it
FlushingFrozen ==
  \A k \in 1..Len(invocations) :
    /\ k <= Len(invocations')
    /\ invocations'[k].scheduler = invocations[k].scheduler
    /\ invocations'[k].request = invocations[k].request
    /\ invocations'[k].id = invocations[k].id

\* C8: per key the bucket cycles Empty, Collecting, Flushing, Empty
BucketCycle == [](BucketCycleState) /\ [][FlushingFrozen]_vars

\* C8 witness: while a bucket of a key is flushing, a later registration under
\* the same key waits in a fresh bucket with its own scheduled flush, and an
\* earlier bucket of the key has completed
BucketCycleWitness ==
  \E k \in 1..Len(invocations), i \in BatchCalls :
    /\ invocations[k].status = "inflight"
    /\ meta[i].id = invocations[k].id
    /\ \A m \in Members(invocations[k]) : m < i
    /\ ~meta[i].split
    /\ meta[i].empty
    /\ meta[i].timers = 1
    /\ CachePlaces(i) = { <<meta[i].id, 1>> }
    /\ \E k2 \in 1..Len(invocations) :
         /\ invocations[k2].id = invocations[k].id
         /\ invocations[k2].status # "inflight"

\* the aggregate3 call expected for an input (target, calldata)
ExpectedCall(target, callData) ==
  [allowFailure |-> TRUE, callData |-> callData, target |-> target]

MulticallRequested == mc.pc = "requested" \/ (mc.pc = "done" /\ "request" \in DOMAIN mc)

\* C9: every entry of the list passed to aggregate3, by the batch executor of
\* call() and by multicall(), has allowFailure = true and the target and
\* calldata of the corresponding input (the placeholder '0x' for a multicall
\* input whose arguments cannot be encoded), in input order and with the
\* length of the input list, whatever the caller's allowFailure option is.
AllowFailureAlways ==
  /\ \A k \in 1..Len(invocations) :
       LET inv == invocations[k] IN
       /\ Len(inv.request.calls) = Len(inv.scheduler)
       /\ \A j \in 1..Len(inv.scheduler) :
            LET a == calls[inv.scheduler[j].pendingPromise] IN
            inv.request.calls[j] = ExpectedCall(Get(a.to), Get(a.data))
  /\ MulticallRequested =>
       /\ Len(mc.request.calls) = Len(mc.args.contracts)
       /\ \A j \in 1..Len(mc.args.contracts) :
            LET c == mc.args.contracts[j]
                enc == encodeFunctionData(c.abi, c.functionName, c.args)
            IN mc.request.calls[j] =
                 ExpectedCall(c.address, IF enc.ok THEN enc.data ELSE << >>)

\* C9 witness: a multicall of two contracts with allowFailure = false has
\* sent its aggregate3 request
AllowFailureAlwaysWitness ==
  /\ mc.pc = "requested"
  /\ mc.args.allowFailure = Some(FALSE)
  /\ Len(mc.request.calls) = 2
  /\ mc.request.calls[1] # mc.request.calls[2]

\* whether entry j of a multicall is a failure by the rule of C10
EntryFails(j) ==
  LET c == mc.args.contracts[j]
      e == mc.response.results[j]
  IN \/ ~encodeFunctionData(c.abi, c.functionName, c.args).ok
     \/ ~e.success
     \/ ~decodeFunctionResult(c.abi, c.functionName, e.returnData).ok

MulticallAnswered ==
  /\ mc.pc = "done"
  /\ "response" \in DOMAIN mc
  /\ mc.response.kind = "data"
  /\ ~mc.response.zero

\* C10: with allowFailure = true (the default) multicall returns one entry per
\* contract, in order, and does not reject because of an individual call:
\* entry j is {status: 'failure', error, result: undefined} iff encoding the
\* arguments of call j failed (placeholder calldata '0x'), or aggregate entry
\* j has success = false, or decoding its returnData failed; otherwise it is
\* {status: 'success', result} decoded with the abi and functionName of
\* contracts[j].
AllowFailureResults ==
  (mc.pc = "done" /\ OrElse(mc.args.allowFailure, TRUE)) =>
    /\ mc.outcome.state = "rejected" => ~MulticallAnswered
    /\ MulticallAnswered =>
         /\ mc.outcome.state = "fulfilled"
         /\ Len(mc.outcome.value) = Len(mc.args.contracts)
         /\ \A j \in 1..Len(mc.args.contracts) :
              LET c == mc.args.contracts[j]
                  e == mc.response.results[j]
                  v == mc.outcome.value[j]
              IN /\ (mc.calls[j].callData = << >>) <=>
                      ~encodeFunctionData(c.abi, c.functionName, c.args).ok
                 /\ (v.status = "failure") <=> EntryFails(j)
                 /\ EntryFails(j) =>
                      /\ v.result = Undefined
                      /\ v.error.name = "ContractFunctionExecutionError"
                      /\ v.error.contractAddress = c.address
                 /\ ~EntryFails(j) =>
                      /\ v.status = "success"
                      /\ v.result =
                           Some(decodeFunctionResult(c.abi, c.functionName,
                                                     e.returnData).value)

\* C10 witness: a multicall of two contracts returned a success decoded as a
\* bool next to a failure caused by undecodable returnData
AllowFailureResultsWitness ==
  /\ MulticallAnswered
  /\ mc.args.allowFailure = Undefined
  /\ Len(mc.args.contracts) = 2
  /\ mc.outcome.state = "fulfilled"
  /\ mc.outcome.value[1].status = "success"
  /\ mc.outcome.value[1].result = Some(<<"bool", TRUE>>)
  /\ mc.outcome.value[2].status = "failure"
  /\ mc.response.results[2].success
  /\ mc.calls[2].callData # << >>

\* the error thrown for entry j of an answered multicall, before wrapping
EntryCause(j) ==
  LET c == mc.args.contracts[j]
      e == mc.response.results[j]
  IN IF ~e.success THEN RawContractError(e.returnData)
     ELSE decodeFunctionResult(c.abi, c.functionName, e.returnData).error

EncodeFails(c) == ~encodeFunctionData(c.abi, c.functionName, c.args).ok

\* C11: with allowFailure = false multicall returns the bare decoded results
\* in input order when no call fails; otherwise it rejects with the contract
\* error of the lowest-index failing call and returns nothing; and when the
\* arguments of some call cannot be encoded it rejects, with the contract
\* error of the first such call, before any aggregate3 request is sent.
NoAllowFailureResults ==
  (mc.pc # "idle" /\ mc.args.allowFailure = Some(FALSE)) =>
    LET cs == mc.args.contracts
        bad == { j \in 1..Len(cs) : EncodeFails(cs[j]) }
    IN /\ (bad # {} /\ IsDefined(ClientChain(mc.args.client))) =>
            /\ mc.pc = "done"
            /\ "request" \notin DOMAIN mc
            /\ mc.outcome.state = "rejected"
            /\ \E j \in bad :
                 /\ \A j2 \in bad : j <= j2
                 /\ mc.outcome.error =
                      getContractError(
                        encodeFunctionData(cs[j].abi, cs[j].functionName, cs[j].args).error,
                        cs[j])
       /\ MulticallRequested => bad = {}
       /\ MulticallAnswered =>
            LET failing == { j \in 1..Len(cs) : EntryFails(j) } IN
            /\ failing = {} =>
                 /\ mc.outcome.state = "fulfilled"
                 /\ Len(mc.outcome.value) = Len(cs)
                 /\ \A j \in 1..Len(cs) :
                      mc.outcome.value[j] =
                        Some(decodeFunctionResult(cs[j].abi, cs[j].functionName,
                                                  mc.response.results[j].returnData).value)
            /\ failing # {} =>
                 /\ mc.outcome.state = "rejected"
                 /\ "value" \notin DOMAIN mc.outcome
                 /\ \E j \in failing :
                      /\ \A j2 \in failing : j <= j2
                      /\ mc.outcome.error = getContractError(EntryCause(j), cs[j])

\* C11 witness: a multicall of two different contracts with allowFailure =
\* false was answered with two failing entries and rejected with the error of
\* the first
NoAllowFailureResultsWitness ==
  /\ MulticallAnswered
  /\ mc.args.allowFailure = Some(FALSE)
  /\ Len(mc.args.contracts) = 2
  /\ mc.args.contracts[1].address # mc.args.contracts[2].address
  /\ EntryFails(1) /\ EntryFails(2)
  /\ mc.outcome.state = "rejected"
  /\ mc.outcome.error.contractAddress = mc.args.contracts[1].address

\* ======================================================= ABI parameter codec
\* An AbiParameter is [base, dims, components]: `base` is the type name without
\* array suffixes, `dims` the array suffixes from the innermost to the
\* outermost (-1 for `[]`, n for `[n]`), `components` the parameters of a tuple.
Unbounded == -1

AbiParam(base, dims, components) ==
  [base |-> base, dims |-> dims, components |-> components]

\* getArrayComponents(type): the outermost suffix and the type without it
isArray(t) == t.dims # << >>
arrayLength(t) == t.dims[Len(t.dims)]
elementType(t) ==
  [base |-> t.base, dims |-> SubSeq(t.dims, 1, Len(t.dims) - 1),
   components |-> t.components]

\* mutant: only the outermost shape is looked at
isDynamicShallow(t) ==
  IF isArray(t) THEN arrayLength(t) = Unbounded
  ELSE t.base \in {"string", "bytes"}

\* classification: an array is dynamic iff it is unbounded or its element
\* type is dynamic, a tuple iff some component is; string and bytes are
RECURSIVE isDynamic(_)
isDynamic(t) ==
  IF isArray(t) THEN arrayLength(t) = Unbounded \/ isDynamic(elementType(t))
  ELSE IF t.base = "tuple"
    THEN \E j \in 1..Len(t.components) : isDynamic(t.components[j])
  ELSE t.base \in {"string", "bytes"}

\* width in bytes of a static type: the sum of the widths of its parts
RECURSIVE staticSize(_)
staticSize(t) ==
  IF isArray(t) THEN arrayLength(t) * staticSize(elementType(t))
  ELSE IF t.base = "tuple"
    THEN SumSeq([ j \in 1..Len(t.components) |-> staticSize(t.components[j]) ])
  ELSE 32

\* the head slot of a parameter: an offset word if dynamic, else its width
headSize(t) == IF isDynamic(t) THEN 32 ELSE staticSize(t)

\* pad(bytes, { dir: 'right' }) to the next multiple of 32
padRight(bs) ==
  bs \o [ j \in 1..((32 - (Len(bs) % 32)) % 32) |-> 0 ]

\* two's complement of a negative number above -2^24, sign-extended to 256 bits
SignedWord(n) ==
  IF n >= 0 THEN Word(n)
  ELSE [ j \in 1..32 |-> IF j <= 29 THEN 255
                         ELSE ((16777216 + n) \div (256 ^ (32 - j))) % 256 ]

\* encodeParams: head (inline static values, offsets of dynamic ones, relative
\* to the start of the block) followed by the tail (the dynamic payloads)
RECURSIVE encodeParams(_, _)
RECURSIVE encodeParam(_, _)
encodeParams(ts, vs) ==
  LET enc == [ j \in 1..Len(ts) |-> encodeParam(ts[j], vs[j]) ]
      staticTotal == SumSeq([ j \in 1..Len(ts) |-> headSize(ts[j]) ])
      offset(j) == staticTotal +
                   SumSeq([ k \in 1..(j - 1) |->
                              IF isDynamic(ts[k]) THEN Len(enc[k]) ELSE 0 ])
  IN Concat([ j \in 1..Len(ts) |->
                IF isDynamic(ts[j]) THEN Word(offset(j)) ELSE enc[j] ])
     \o Concat([ j \in 1..Len(ts) |->
                   IF isDynamic(ts[j]) THEN enc[j] ELSE << >> ])

\* the encoding of one value: inline words if static, its payload if dynamic
encodeParam(t, v) ==
  IF isArray(t)
    THEN LET block == encodeParams([ j \in 1..Len(v) |-> elementType(t) ], v)
         IN IF arrayLength(t) = Unbounded THEN Word(Len(v)) \o block ELSE block
  ELSE IF t.base = "tuple" THEN encodeParams(t.components, v)
  ELSE IF t.base \in {"string", "bytes"} THEN Word(Len(v)) \o padRight(v)
  ELSE IF t.base = "bool" THEN Word(IF v THEN 1 ELSE 0)
  ELSE IF t.base = "int256" THEN SignedWord(v)
  ELSE Word(v)

\* whether the arrays of a value have the lengths their fixed types declare
RECURSIVE arrayLengthsMatch(_, _)
arrayLengthsMatch(t, v) ==
  IF isArray(t)
    THEN /\ arrayLength(t) = Unbounded \/ Len(v) = arrayLength(t)
         /\ \A j \in 1..Len(v) : arrayLengthsMatch(elementType(t), v[j])
  ELSE IF t.base = "tuple"
    THEN \A j \in 1..Len(t.components) : arrayLengthsMatch(t.components[j], v[j])
  ELSE TRUE

\* encodeAbiParameters(params, values)
encodeAbiParameters(params, values) ==
  IF Len(params) # Len(values)
    THEN [ok |-> FALSE, error |-> Err("AbiEncodingLengthMismatchError"), data |-> << >>]
  ELSE IF \E j \in 1..Len(params) : ~arrayLengthsMatch(params[j], values[j])
    THEN [ok |-> FALSE, error |-> Err("AbiEncodingArrayLengthMismatchError"),
          data |-> << >>]
  ELSE [ok |-> TRUE, error |-> Err(""), data |-> encodeParams(params, values)]

\* ------------------------------------------------------------------ decoding
\* numbers of 2^30 and more are all represented by Huge: as an offset or a
\* length each of them lies beyond every buffer explored
Huge == 1073741824

Max(a, b) == IF a >= b THEN a ELSE b

\* hexToNumber / hexToBigInt of a 32-byte word
wordToNumber(w) ==
  IF (\E j \in 1..28 : w[j] # 0) \/ w[29] >= 64 THEN Huge
  ELSE BytesToNumber(SubSeq(w, 29, 32))

\* hexToBigInt(word, { signed: true }) for values above -2^24
wordToSigned(w) ==
  IF w[1] >= 128 THEN BytesToNumber(SubSeq(w, 30, 32)) - 16777216
  ELSE wordToNumber(w)

\* a decoding result: the value, or the error, and `hi`, the end of the
\* highest byte range read from the data (0 when nothing was read)
Decoded(v, hi) == [ok |-> TRUE, error |-> Err(""), value |-> <<v>>, hi |-> hi]
DecodeError(name, hi) == [ok |-> FALSE, error |-> Err(name), value |-> << >>, hi |-> hi]

\* mutant: slice without bounds check, as a non-strict slice reads it
readBytesUnchecked(data, start, size) ==
  Decoded(SubSeq(data, Max(1, start + 1), IF start + size <= Len(data)
                                           THEN start + size ELSE Len(data))
          \o [ j \in 1..(IF start + size <= Len(data) THEN 0
                         ELSE IF size > 64 THEN 64 ELSE size) |-> 0 ],
          IF size = 0 THEN 0 ELSE start + size)

\* slice(data, start, start + size, { strict: true }): the bytes at offsets
\* start .. start + size - 1, or AbiDecodingDataSizeTooSmallError
readBytes(data, start, size) ==
  IF start + size > Len(data) THEN DecodeError("AbiDecodingDataSizeTooSmallError", 0)
  ELSE Decoded(SubSeq(data, start + 1, start + size),
               IF size = 0 THEN 0 ELSE start + size)

\* the first failing result of a sequence of results, else all their values
collect(rs, hi0) ==
  LET hi == LET F[n \in 0..Len(rs)] ==
                  IF n = 0 THEN hi0 ELSE Max(F[n - 1], rs[n].hi)
            IN F[Len(rs)]
  IN IF \E j \in 1..Len(rs) : ~rs[j].ok
       THEN LET j == CHOOSE k \in 1..Len(rs) :
                       ~rs[k].ok /\ \A k2 \in 1..(k - 1) : rs[k2].ok
            IN DecodeError(rs[j].error.name, hi)
       ELSE Decoded([ j \in 1..Len(rs) |-> rs[j].value[1] ], hi)

\* mutant: a fixed array with a dynamic child consumes the size of its
\* children instead of one offset word
consumedSizeOfChild(t) ==
  IF ~isDynamic(t) THEN staticSize(t)
  ELSE IF isArray(t) /\ arrayLength(t) # Unbounded THEN 32 * arrayLength(t)
  ELSE 32

\* the bytes of the head a decoded parameter consumes: 32 for a dynamic one
consumedSize(t) == IF isDynamic(t) THEN 32 ELSE staticSize(t)

\* decodeParams / decodeParam: `base` is the start of the block the offsets
\* of its head are relative to, `pos` the position of the head slot
RECURSIVE decodeParams(_, _, _)
RECURSIVE decodeParam(_, _, _, _)
decodeParams(data, ts, base) ==
  collect([ j \in 1..Len(ts) |->
              decodeParam(data, ts[j], base,
                          base + SumSeq([ k \in 1..(j - 1) |-> consumedSize(ts[k]) ])) ],
          0)

decodeParam(data, t, base, pos) ==
  IF ~isDynamic(t)
    THEN IF isArray(t)
           THEN collect([ j \in 1..arrayLength(t) |->
                            decodeParam(data, elementType(t), base,
                                        pos + (j - 1) * staticSize(elementType(t))) ],
                        0)
         ELSE IF t.base = "tuple"
           THEN collect([ j \in 1..Len(t.components) |->
                            decodeParam(data, t.components[j], base,
                                        pos + SumSeq([ k \in 1..(j - 1) |->
                                                staticSize(t.components[k]) ])) ],
                        0)
         ELSE LET w == readBytes(data, pos, 32) IN
              IF ~w.ok THEN w
              ELSE IF t.base = "bool" THEN Decoded(wordToNumber(w.value[1]) # 0, w.hi)
              ELSE IF t.base = "int256" THEN Decoded(wordToSigned(w.value[1]), w.hi)
              ELSE Decoded(wordToNumber(w.value[1]), w.hi)
  ELSE LET off == readBytes(data, pos, 32) IN
       IF ~off.ok THEN off
       ELSE LET start == base + wordToNumber(off.value[1]) IN
       IF isArray(t) /\ arrayLength(t) # Unbounded
         THEN collect([ j \in 1..arrayLength(t) |->
                          decodeParam(data, elementType(t), start,
                                      start + (j - 1) * consumedSize(elementType(t))) ],
                      off.hi)
       ELSE IF t.base = "tuple" /\ ~isArray(t)
         THEN LET r == decodeParams(data, t.components, start) IN
              [r EXCEPT !.hi = Max(r.hi, off.hi)]
       ELSE LET len == readBytes(data, start, 32) IN
            IF ~len.ok THEN [len EXCEPT !.hi = off.hi]
            ELSE LET n == wordToNumber(len.value[1]) IN
            IF isArray(t)
              THEN IF n > Len(data)
                        \/ start + 32 + n * consumedSize(elementType(t)) > Len(data)
                     THEN DecodeError("AbiDecodingDataSizeTooSmallError",
                                      Max(len.hi, off.hi))
                   ELSE collect([ j \in 1..n |->
                                    decodeParam(data, elementType(t), start + 32,
                                                start + 32
                                                + (j - 1) * consumedSize(elementType(t))) ],
                                Max(len.hi, off.hi))
            ELSE LET content == readBytes(data, start + 32, n) IN
                 [content EXCEPT !.hi = Max(content.hi, Max(len.hi, off.hi))]

\* decodeAbiParameters(params, data)
decodeAbiParameters(params, data) ==
  IF data = << >> THEN DecodeError("AbiDecodingZeroDataError", 0)
  ELSE IF Len(data) % 32 # 0 THEN DecodeError("AbiDecodingDataSizeInvalidError", 0)
  ELSE decodeParams(data, params, 0)

\* ------------------------------------------ encoding and decoding, as a run
MaxParams == 2     \* number of parameters of an encoded list

tUint == AbiParam("uint256", << >>, << >>)
tInt == AbiParam("int256", << >>, << >>)
tBool == AbiParam("bool", << >>, << >>)
tString == AbiParam("string", << >>, << >>)

\* the parameter types explored
AbiTypes ==
  << tUint,                                                 \* uint256
     tBool,                                                 \* bool
     tInt,                                                  \* int256
     tString,                                               \* string
     AbiParam("uint256", <<Unbounded>>, << >>),             \* uint256[]
     AbiParam("uint256", <<3>>, << >>),                     \* uint256[3]
     AbiParam("string", <<2>>, << >>),                      \* string[2]
     AbiParam("uint256", <<Unbounded, Unbounded>>, << >>),  \* uint256[][]
     AbiParam("tuple", << >>, <<tUint, tString>>),          \* (uint256,string)
     AbiParam("tuple", << >>, <<tUint, tBool>>),            \* (uint256,bool)
     AbiParam("tuple", << >>,                               \* (uint256,(string,uint256[]))
              <<tUint, AbiParam("tuple", << >>,
                                <<tString, AbiParam("uint256", <<Unbounded>>, << >>)>>)>>),
     AbiParam("tuple", <<Unbounded>>, <<tUint, tString>>),  \* (uint256,string)[]
     AbiParam("string", <<2, Unbounded>>, << >>) >>         \* string[2][]

LongString == [ j \in 1..33 |-> 65 ]

\* the values explored for each type, a fixed array of the wrong length last
AbiValues ==
  << <<0, 300>>,
     <<TRUE, FALSE>>,
     <<-3, 5>>,
     << << >>, <<97, 98>>, LongString >>,
     << << >>, <<1, 300>> >>,
     << <<1, 2, 3>>, <<1, 2>> >>,
     << << <<97>>, << >> >>, << << >>, <<98, 99>> >> >>,
     << << >>, << << >>, <<7>> >>, << <<1, 2>>, << >> >> >>,
     << <<1, << >> >>, <<2, <<97>> >> >>,
     << <<1, TRUE>>, <<0, FALSE>> >>,
     << <<1, << <<97>>, << >> >> >>, <<0, << << >>, <<5, 6>> >> >> >>,
     << << >>, << <<1, <<97>> >>, <<2, << >> >> >> >>,
     << << >>, << << <<97>>, << >> >> >>,
        << << << >>, << >> >>, << <<98>>, <<99>> >> >> >> >>

\* an input names its parameters and values by <<type index, value index>>
AbiChoices == { <<i, k>> : i \in 1..Len(AbiTypes), k \in 1..3 }

AbiInputs ==
  { inp \in UNION { [1..n -> AbiChoices] : n \in 1..MaxParams } :
      /\ \A j \in 1..Len(inp) : inp[j][2] <= Len(AbiValues[inp[j][1]])
      /\ Len(inp) >= 2 => \A j \in 1..Len(inp) : inp[j][1] \in {1, 4, 5, 7, 9} }

ParamsOf(inp) == [ j \in 1..Len(inp) |-> AbiTypes[inp[j][1]] ]
ValuesOf(inp) == [ j \in 1..Len(inp) |-> AbiValues[inp[j][1]][inp[j][2]] ]

\* the value lists offered with an input: its own, or one value short
InitAbi ==
  /\ InitCall
  /\ rlp = Idle /\ sig = Idle /\ create = Idle /\ tx = Idle /\ watch = Idle
  /\ \E inp \in AbiInputs, short \in BOOLEAN :
       codec = [pc |-> "input", input |-> inp, short |-> short]

AbiGiven == IF codec.short THEN Tail(ValuesOf(codec.input)) ELSE ValuesOf(codec.input)

\* encodeAbiParameters(params, values)
AbiEncode ==
  /\ codec.pc = "input"
  /\ LET enc == encodeAbiParameters(ParamsOf(codec.input), AbiGiven) IN
     codec' = IF enc.ok
              THEN [pc |-> "encoded", input |-> codec.input, short |-> codec.short,
                    data |-> enc.data, damaged |-> FALSE]
              ELSE [pc |-> "failed", input |-> codec.input, short |-> codec.short,
                    error |-> enc.error]
  /\ UNCHANGED exceptCodec

\* a node returns the data cut short
AbiTruncate(n) ==
  /\ codec.pc = "encoded"
  /\ ~codec.damaged
  /\ n < Len(codec.data)
  /\ codec' = [codec EXCEPT !.data = SubSeq(codec.data, 1, n), !.damaged = TRUE]
  /\ UNCHANGED exceptCodec

\* a node returns the data with one word replaced
AbiOverwrite(w, v) ==
  /\ codec.pc = "encoded"
  /\ ~codec.damaged
  /\ 32 * w <= Len(codec.data)
  /\ SubSeq(codec.data, 32 * w - 31, 32 * w) # Word(v)
  /\ codec' = [codec EXCEPT
               !.data = SubSeq(codec.data, 1, 32 * w - 32) \o Word(v)
                        \o SubSeq(codec.data, 32 * w + 1, Len(codec.data)),
               !.damaged = TRUE]
  /\ UNCHANGED exceptCodec

\* decodeAbiParameters(params, data)
AbiDecode ==
  /\ codec.pc = "encoded"
  /\ codec' = [pc |-> "decoded", input |-> codec.input, short |-> codec.short,
             data |-> codec.data, damaged |-> codec.damaged,
             result |-> decodeAbiParameters(ParamsOf(codec.input), codec.data)]
  /\ UNCHANGED exceptCodec

\* the lengths a returned buffer is cut to and the words written into it
TruncateLengths(len) == {0, 31, 32, 64, len - 33, len - 32, len - 1} \cap 0..(len - 1)
OverwriteValues == {0, 32, 1000, Huge}

NextAbi ==
  \/ AbiEncode
  \/ \E n \in TruncateLengths(IF codec.pc = "encoded" THEN Len(codec.data) ELSE 0) :
       AbiTruncate(n)
  \/ \E w \in 1..12, v \in OverwriteValues : AbiOverwrite(w, v)
  \/ AbiDecode

SpecAbi == InitAbi /\ [][NextAbi]_vars

AbiDecodeInBounds ==
  codec.pc = "decoded" =>
    LET r == codec.result
        size == Len(codec.data)
        headTotal == SumSeq([ j \in 1..Len(codec.input) |->
                                headSize(ParamsOf(codec.input)[j]) ])
    IN /\ r.hi <= size
       /\ size = 0 <=> (~r.ok /\ r.error.name = "AbiDecodingZeroDataError")
       /\ (size # 0 /\ size % 32 # 0)
            <=> (~r.ok /\ r.error.name = "AbiDecodingDataSizeInvalidError")
       /\ (size # 0 /\ size % 32 = 0) =>
            /\ r.ok \/ r.error.name = "AbiDecodingDataSizeTooSmallError"
            /\ size < headTotal => ~r.ok
       /\ r.ok => r.hi >= headTotal

\* C14 witness: a buffer whose declared string length reaches past its end
\* was refused with AbiDecodingDataSizeTooSmallError after in-bounds reads
AbiDecodeInBoundsWitness ==
  /\ codec.pc = "decoded"
  /\ codec.damaged
  /\ codec.input = << <<4, 2>> >>
  /\ Len(codec.data) = 96
  /\ wordToNumber(SubSeq(codec.data, 33, 64)) = 1000
  /\ ~codec.result.ok
  /\ codec.result.error.name = "AbiDecodingDataSizeTooSmallError"
  /\ codec.result.hi = 64

\* the types contained in a type: its element type or its components
Parts(t) ==
  IF isArray(t) THEN {elementType(t)}
  ELSE IF t.base = "tuple" THEN { t.components[j] : j \in 1..Len(t.components) }
  ELSE {}

\* the types of the run, with everything they contain, two levels deep
CodecTypes ==
  LET top == { ParamsOf(codec.input)[j] : j \in 1..Len(codec.input) }
      one == top \cup UNION { Parts(t) : t \in top }
  IN one \cup UNION { Parts(t) : t \in one }

\* C15: a tuple or array type is dynamic iff it is an unbounded array or some
\* contained element or component is dynamic, and static otherwise with width
\* the sum of the widths of its parts, which is the number of bytes its
\* values are encoded in; uint256[3] is static of width 96, uint256[] is
\* dynamic, (uint256,string) is dynamic and (uint256,bool) is static.
AbiClassification ==
  /\ codec.pc \in {"input", "encoded"} =>
       \A t \in CodecTypes :
         (isArray(t) \/ t.base = "tuple") =>
           /\ isDynamic(t) <=>
                \/ isArray(t) /\ arrayLength(t) = Unbounded
                \/ \E e \in Parts(t) : isDynamic(e)
           /\ ~isDynamic(t) =>
                staticSize(t) =
                  IF isArray(t) THEN arrayLength(t) * staticSize(elementType(t))
                  ELSE SumSeq([ j \in 1..Len(t.components) |->
                                  staticSize(t.components[j]) ])
  /\ (codec.pc = "encoded" /\ ~codec.damaged) =>
       LET ts == ParamsOf(codec.input) IN
       /\ (\A j \in 1..Len(ts) : ~isDynamic(ts[j])) =>
            Len(codec.data) = SumSeq([ j \in 1..Len(ts) |-> staticSize(ts[j]) ])
       /\ \A j \in 1..Len(ts) :
            isDynamic(ts[j]) =>
              Len(codec.data) >= 32 + SumSeq([ k \in 1..Len(ts) |-> headSize(ts[k]) ])
       /\ (ts = <<AbiTypes[6]>>) => ~isDynamic(ts[1]) /\ Len(codec.data) = 96
       /\ (ts = <<AbiTypes[5]>>) => isDynamic(ts[1])
       /\ (ts = <<AbiTypes[9]>>) => isDynamic(ts[1])
       /\ (ts = <<AbiTypes[10]>>) => ~isDynamic(ts[1]) /\ Len(codec.data) = 64

\* C15 witness: a uint256[3] has been encoded inline in 96 bytes
AbiClassificationWitness ==
  /\ codec.pc = "encoded"
  /\ ~codec.damaged
  /\ codec.input = << <<6, 1>> >>
  /\ Len(codec.data) = 96
  /\ staticSize(AbiTypes[6]) = 96

\* ================================================================ RLP codec
MaxRlpItems == 2     \* number of items of a list explored

\* an RlpItem: a byte string or a list of items
RlpBytes(bs) == [kind |-> "bytes", bytes |-> bs, items |-> << >>]
RlpList(items) == [kind |-> "list", bytes |-> << >>, items |-> items]

\* minimal big-endian form of a number: no leading zero byte, 0 is empty
RECURSIVE numberToBytes(_)
numberToBytes(n) ==
  IF n = 0 THEN << >> ELSE Append(numberToBytes(n \div 256), n % 256)

\* the prefix of a payload of `len` bytes: offset + len up to 55 bytes, else
\* offset + 55 + the length of the length, followed by the length
encodeLength(len, offset) ==
  IF len <= 55 THEN <<offset + len>>
  ELSE <<offset + 55 + Len(numberToBytes(len))>> \o numberToBytes(len)

\* toRlp(item)
RECURSIVE toRlp(_)
toRlp(item) ==
  IF item.kind = "bytes"
    THEN IF Len(item.bytes) = 1 /\ item.bytes[1] < 128 THEN item.bytes
         ELSE encodeLength(Len(item.bytes), 128) \o item.bytes
  ELSE LET payload == Concat([ j \in 1..Len(item.items) |-> toRlp(item.items[j]) ])
       IN encodeLength(Len(payload), 192) \o payload

RlpDecoded(item, next) == [ok |-> TRUE, error |-> Err(""), item |-> <<item>>, next |-> next]
InvalidRlpDataError == [ok |-> FALSE, error |-> Err("InvalidRlpDataError"),
                        item |-> << >>, next |-> 0]

\* mutant: the decoded value is trimmed of its leading zero bytes
RECURSIVE sliceBytesTrimmed(_, _, _)
sliceBytesTrimmed(data, from, to) ==
  IF from < to /\ data[from + 1] = 0 THEN sliceBytesTrimmed(data, from + 1, to)
  ELSE SubSeq(data, from + 1, to)

\* the bytes of data at offsets from .. to - 1
sliceBytes(data, from, to) == SubSeq(data, from + 1, to)

\* the payload announced by the prefix at `pos`: where it starts and ends, or
\* the refusal of a length that exceeds the buffer or is not minimal
rlpPayload(data, pos, end) ==
  LET p == data[pos + 1]
      short == IF p < 192 THEN p - 128 ELSE p - 192
      ll == IF p < 192 THEN p - 183 ELSE p - 247
      long == (p >= 184 /\ p <= 191) \/ p >= 248
  IN IF ~long
       THEN IF pos + 1 + short > end THEN [ok |-> FALSE, from |-> 0, to |-> 0]
            ELSE [ok |-> TRUE, from |-> pos + 1, to |-> pos + 1 + short]
     ELSE IF pos + 1 + ll > end THEN [ok |-> FALSE, from |-> 0, to |-> 0]
     ELSE LET lb == SubSeq(data, pos + 2, pos + 1 + ll)
              len == BytesToNumber(lb)
          IN IF lb[1] = 0 \/ len <= 55 \/ pos + 1 + ll + len > end
               THEN [ok |-> FALSE, from |-> 0, to |-> 0]
               ELSE [ok |-> TRUE, from |-> pos + 1 + ll, to |-> pos + 1 + ll + len]

\* the item at `pos` of a buffer that ends at `end`, and the items of a list
RECURSIVE decodeRlpItem(_, _, _)
RECURSIVE decodeRlpList(_, _, _)
decodeRlpItem(data, pos, end) ==
  IF pos >= end THEN InvalidRlpDataError
  ELSE LET p == data[pos + 1] IN
  IF p < 128 THEN RlpDecoded(RlpBytes(<<p>>), pos + 1)
  ELSE LET pl == rlpPayload(data, pos, end) IN
  IF ~pl.ok THEN InvalidRlpDataError
  ELSE IF p < 192
    THEN IF pl.to - pl.from = 1 /\ data[pl.from + 1] < 128 THEN InvalidRlpDataError
         ELSE RlpDecoded(RlpBytes(sliceBytes(data, pl.from, pl.to)), pl.to)
  ELSE LET items == decodeRlpList(data, pl.from, pl.to) IN
       IF ~items.ok THEN InvalidRlpDataError
       ELSE RlpDecoded(RlpList(items.item[1]), pl.to)

decodeRlpList(data, pos, end) ==
  IF pos = end THEN RlpDecoded(<< >>, end)
  ELSE LET first == decodeRlpItem(data, pos, end) IN
       IF ~first.ok THEN InvalidRlpDataError
       ELSE LET rest == decodeRlpList(data, first.next, end) IN
            IF ~rest.ok THEN InvalidRlpDataError
            ELSE RlpDecoded(<<first.item[1]>> \o rest.item[1], end)

\* fromRlp(data)
fromRlp(data) == decodeRlpItem(data, 0, Len(data))

\* the items explored: byte strings, lists of them, lists of those
RlpLeaves ==
  { RlpBytes(<< >>), RlpBytes(<<0>>), RlpBytes(<<127>>), RlpBytes(<<128>>),
    RlpBytes(<<0, 1>>), RlpBytes([ j \in 1..55 |-> 7 ]), RlpBytes([ j \in 1..56 |-> 7 ]) }

RlpListsOver(S) == { RlpList(items) : items \in UNION { [1..n -> S] : n \in 0..MaxRlpItems } }

RlpItems ==
  RlpLeaves \cup RlpListsOver(RlpLeaves)
  \cup RlpListsOver({ RlpBytes(<<0>>), RlpList(<< >>), RlpList(<<RlpBytes(<< >>)>>),
                      RlpList(<<RlpBytes(<<0, 1>>), RlpBytes(<<128>>)>>) })

InitRlp ==
  /\ InitCall
  /\ codec = Idle /\ sig = Idle /\ create = Idle /\ tx = Idle /\ watch = Idle
  /\ \E item \in RlpItems : rlp = [pc |-> "input", item |-> item]

RlpEncode ==
  /\ rlp.pc = "input"
  /\ rlp' = [pc |-> "encoded", item |-> rlp.item, data |-> toRlp(rlp.item),
             damage |-> "none"]
  /\ UNCHANGED exceptRlp

\* the buffer arrives without its last n bytes
RlpTruncate(n) ==
  /\ rlp.pc = "encoded"
  /\ rlp.damage = "none"
  /\ n >= 1 /\ n < Len(rlp.data)
  /\ rlp' = [rlp EXCEPT !.data = SubSeq(rlp.data, 1, Len(rlp.data) - n),
                        !.damage = "truncated"]
  /\ UNCHANGED exceptRlp

\* the same payload with a length prefix that is not minimal: the long form
\* for a short payload, or a length with a leading zero byte
RlpLengthen ==
  /\ rlp.pc = "encoded"
  /\ rlp.damage = "none"
  /\ rlp.data[1] >= 128
  /\ LET p == rlp.data[1]
         offset == IF p < 192 THEN 128 ELSE 192
         long == p - offset > 55
         ll == p - offset - 55
         payload == IF long THEN SubSeq(rlp.data, 2 + ll, Len(rlp.data))
                    ELSE Tail(rlp.data)
     IN rlp' = [rlp EXCEPT
                  !.data = IF long
                             THEN <<p + 1, 0>> \o SubSeq(rlp.data, 2, 1 + ll) \o payload
                             ELSE <<offset + 56, Len(payload)>> \o payload,
                  !.damage = "lengthened"]
  /\ UNCHANGED exceptRlp

RlpDecode ==
  /\ rlp.pc = "encoded"
  /\ rlp' = [pc |-> "decoded", item |-> rlp.item, data |-> rlp.data,
             damage |-> rlp.damage, result |-> fromRlp(rlp.data)]
  /\ UNCHANGED exceptRlp

NextRlp ==
  \/ RlpEncode
  \/ \E n \in {1, 2, 56} : RlpTruncate(n)
  \/ RlpLengthen
  \/ RlpDecode

SpecRlp == InitRlp /\ [][NextRlp]_vars

\* C13: for every RlpItem decode(encode(item)) = item; the empty byte string,
\* the empty list and the single zero byte have the distinct encodings 0x80,
\* 0xc0 and 0x00 and decode back to themselves; and decode rejects a buffer
\* shorter than its declared length and a length prefix that is not minimal.
RlpRoundTrip ==
  /\ rlp.pc \in {"encoded", "decoded"} /\ rlp.damage = "none" =>
       /\ rlp.data = <<128>> <=> rlp.item = RlpBytes(<< >>)
       /\ rlp.data = <<192>> <=> rlp.item = RlpList(<< >>)
       /\ rlp.data = <<0>> <=> rlp.item = RlpBytes(<<0>>)
  /\ rlp.pc = "decoded" =>
       /\ rlp.damage = "none" =>
            rlp.result.ok /\ rlp.result.item = <<rlp.item>>
       /\ rlp.damage # "none" =>
            ~rlp.result.ok /\ rlp.result.error.name = "InvalidRlpDataError"

\* C13 witness: a list holding the single zero byte, the empty list and a
\* list of the empty byte string was decoded from its encoding
RlpRoundTripWitness ==
  /\ rlp.pc = "decoded"
  /\ rlp.damage = "none"
  /\ rlp.item = RlpList(<<RlpBytes(<<0>>), RlpList(<< >>)>>)
  /\ rlp.data = <<194, 0, 192>>
  /\ rlp.result.ok

\* ============================================================== hashFunction
\* Text is a sequence of characters.
MaxSigParams == 2     \* number of parameters of a hashed definition

kwFunction == <<"f", "u", "n", "c", "t", "i", "o", "n">>
kwEvent == <<"e", "v", "e", "n", "t">>
kwIndexed == <<"i", "n", "d", "e", "x", "e", "d">>

\* keccak256(toBytes(value)): a hash without collisions
hash(value) == [keccak256 |-> value]

\* def.replace(/ /g, '')
removeSpaces(s) == SelectSeq(s, LAMBDA c : c # " ")

startsWith(s, p) == Len(p) <= Len(s) /\ SubSeq(s, 1, Len(p)) = p

\* the position of the first / last occurrence of a character, or 0
indexOf(s, c) ==
  IF \E j \in 1..Len(s) : s[j] = c
    THEN CHOOSE j \in 1..Len(s) : s[j] = c /\ \A k \in 1..(j - 1) : s[k] # c
    ELSE 0

lastIndexOf(s, c) ==
  IF \E j \in 1..Len(s) : s[j] = c
    THEN CHOOSE j \in 1..Len(s) : s[j] = c /\ \A k \in (j + 1)..Len(s) : s[k] # c
    ELSE 0

\* s.split(sep)
RECURSIVE split(_, _)
split(s, sep) ==
  LET j == indexOf(s, sep) IN
  IF j = 0 THEN <<s>>
  ELSE <<SubSeq(s, 1, j - 1)>> \o split(SubSeq(s, j + 1, Len(s)), sep)

\* s.trim()
RECURSIVE trim(_)
trim(s) ==
  IF s # << >> /\ s[1] = " " THEN trim(Tail(s))
  ELSE IF s # << >> /\ s[Len(s)] = " " THEN trim(SubSeq(s, 1, Len(s) - 1))
  ELSE s

\* s.join(sep)
RECURSIVE join(_, _)
join(ss, sep) ==
  IF ss = << >> THEN << >>
  ELSE IF Len(ss) = 1 THEN ss[1]
  ELSE ss[1] \o sep \o join(Tail(ss), sep)

\* the definition without a leading `function ` or `event `
withoutKeyword(def) ==
  IF startsWith(def, kwFunction \o <<" ">>)
    THEN SubSeq(def, Len(kwFunction) + 2, Len(def))
  ELSE IF startsWith(def, kwEvent \o <<" ">>)
    THEN SubSeq(def, Len(kwEvent) + 2, Len(def))
  ELSE def

\* extractFunctionName(def): the text before the parameter list
extractFunctionName(def) ==
  LET rest == withoutKeyword(def) IN SubSeq(rest, 1, indexOf(rest, "(") - 1)

\* extractFunctionParams(def): for each comma-separated parameter its type,
\* the first word; nothing when the parentheses are empty
extractFunctionParams(def) ==
  LET text == SubSeq(def, indexOf(def, "(") + 1, lastIndexOf(def, ")") - 1) IN
  IF text = << >> THEN << >>
  ELSE LET ps == split(text, ",") IN
       [ j \in 1..Len(ps) |-> [type |-> split(trim(ps[j]), " ")[1]] ]

\* hashFunction(def)
hashFunction(def) ==
  LET name == extractFunctionName(def)
      params == extractFunctionParams(def)
  IN IF Len(params) = 0 THEN hash(removeSpaces(def))
     ELSE hash(name \o <<"(">>
               \o join([ j \in 1..Len(params) |-> params[j].type ], <<",">>)
               \o <<")">>)

\* the definitions explored: a name and a list of types, written with or
\* without a keyword, parameter names, `indexed`, and extra spaces
SigNames == { <<"T", "r">>, <<"d", "r", "a", "w">> }
SigTypes == { <<"a", "d", "d", "r", "e", "s", "s">>, <<"u", "i", "n", "t", "8">> }
SigTypeLists == UNION { [1..n -> SigTypes] : n \in 0..MaxSigParams }

SigInputs ==
  { inp \in [name : SigNames, types : SigTypeLists,
             keyword : {<< >>, kwFunction, kwEvent},
             named : BOOLEAN, indexed : BOOLEAN, spaces : BOOLEAN] :
      inp.types = << >> => ~inp.named /\ ~inp.indexed }

\* the canonical signature name(type1,...,typeN)
Canonical(inp) == inp.name \o <<"(">> \o join(inp.types, <<",">>) \o <<")">>

\* the definition as written
Written(inp) ==
  LET param(j) == inp.types[j]
                  \o (IF inp.indexed THEN <<" ">> \o kwIndexed ELSE << >>)
                  \o (IF inp.named THEN <<" ", "p">> ELSE << >>)
      inner == IF inp.types = << >>
                 THEN IF inp.spaces THEN <<" ">> ELSE << >>
                 ELSE join([ j \in 1..Len(inp.types) |-> param(j) ],
                           IF inp.spaces THEN <<",", " ">> ELSE <<",">>)
  IN (IF inp.keyword = << >> THEN << >> ELSE inp.keyword \o <<" ">>)
     \o inp.name \o <<"(">> \o inner \o <<")">>

InitSig ==
  /\ InitCall
  /\ codec = Idle /\ rlp = Idle /\ create = Idle /\ tx = Idle /\ watch = Idle
  /\ \E inp \in SigInputs : sig = [pc |-> "input", input |-> inp, def |-> Written(inp)]

HashFunction ==
  /\ sig.pc = "input"
  /\ sig' = [pc |-> "hashed", input |-> sig.input, def |-> sig.def,
             hash |-> hashFunction(sig.def)]
  /\ UNCHANGED exceptSig

NextSig == HashFunction

SpecSig == InitSig /\ [][NextSig]_vars

\* C16: hashFunction returns the hash of the canonical signature
\* name(type1,...,typeN): a definition written with parameter names,
\* `indexed`, a leading `function` or `event` keyword or extra spaces has the
\* hash of its canonical form, with and without parameters.
SelectorDeterminism ==
  sig.pc = "hashed" => sig.hash = hash(Canonical(sig.input))

\* ======================================================== getContractAddress
MaxNonce == 3     \* the nonces 0..MaxNonce are explored, next to larger ones

\* keccak256 of the concatenation of `bytes` and, when given, the hash of
\* `hashed`: a hash without collisions, known by what was hashed
keccak256(bytes, hashed) == [keccak256 |-> bytes, thenHashOf |-> hashed]

\* an address given as text: its 20 bytes and whether it is written checksummed
AddressText(bytes, checksummed) == [bytes |-> bytes, checksummed |-> checksummed]

\* getAddress(address): the checksummed form of the same 20 bytes
getAddress(address) == [address EXCEPT !.checksummed = TRUE]

\* toBytes(value) of a bigint: hexToBytes(numberToHex(value)); 0n is '0x00'
toBytesNumber(n) == IF n = 0 THEN <<0>> ELSE numberToBytes(n)

\* pad(bytes, { size }): zeros on the left, SizeOverflowError beyond size
pad(bytes, size) ==
  IF Len(bytes) > size THEN [ok |-> FALSE, error |-> Err("SizeOverflowError"), bytes |-> << >>]
  ELSE [ok |-> TRUE, error |-> Err(""),
        bytes |-> [ j \in 1..(size - Len(bytes)) |-> 0 ] \o bytes]

Returned(address) == [state |-> "returned", address |-> <<address>>, error |-> Err("")]
Thrown(error) == [state |-> "thrown", address |-> << >>, error |-> error]

\* mutant: the nonce is passed to RLP as toBytes returns it
getCreateAddressKeepZero(opts) ==
  LET from == getAddress(opts.from).bytes
      nonce == toBytesNumber(opts.nonce)
  IN Returned(getAddress(
       AddressText([last20of |-> keccak256(toRlp(RlpList(<<RlpBytes(from),
                                                          RlpBytes(nonce)>>)),
                                           Undefined)],
                   FALSE)))

\* getCreateAddress(opts)
getCreateAddress(opts) ==
  LET from == getAddress(opts.from).bytes
      nonce0 == toBytesNumber(opts.nonce)
      nonce == IF nonce0[1] = 0 THEN << >> ELSE nonce0
  IN Returned(getAddress(
       AddressText([last20of |-> keccak256(toRlp(RlpList(<<RlpBytes(from),
                                                          RlpBytes(nonce)>>)),
                                           Undefined)],
                   FALSE)))

\* getCreate2Address(opts)
getCreate2Address(opts) ==
  LET from == getAddress(opts.from).bytes
      salt == pad(opts.salt, 32)
  IN IF ~salt.ok THEN Thrown(salt.error)
     ELSE Returned(getAddress(
            AddressText([last20of |-> keccak256(<<255>> \o from \o salt.bytes,
                                                Some(opts.bytecode))],
                        FALSE)))

\* getContractAddress(opts)
getContractAddress(opts) ==
  IF opts.opcode = Some("CREATE2")
    THEN getCreate2Address([from |-> opts.from, salt |-> Get(opts.salt),
                            bytecode |-> Get(opts.bytecode)])
    ELSE getCreateAddress(opts)

\* the options explored
CreateSenders ==
  { AddressText([ j \in 1..20 |-> 17 ], FALSE),
    AddressText([ j \in 1..20 |-> IF j = 1 THEN 0 ELSE 202 ], TRUE),
    AddressText([ j \in 1..20 |-> j ], TRUE) }

CreateNonces == (0..MaxNonce) \cup {127, 128, 255, 256, 65535, 65536}

CreateOptions ==
  [from : CreateSenders, nonce : CreateNonces, opcode : {Undefined, Some("CREATE")},
   salt : {Undefined}, bytecode : {Undefined}]
  \cup
  [from : CreateSenders, nonce : {0}, opcode : {Some("CREATE2")},
   salt : { Some(<< >>), Some(<<1>>), Some([ j \in 1..32 |-> 9 ]),
            Some([ j \in 1..33 |-> 9 ]) },
   bytecode : { Some(<< >>), Some(<<96, 0>>) }]

InitCreate ==
  /\ InitCall
  /\ codec = Idle /\ rlp = Idle /\ sig = Idle /\ tx = Idle /\ watch = Idle
  /\ \E opts \in CreateOptions : create = [pc |-> "input", opts |-> opts]

GetContractAddress ==
  /\ create.pc = "input"
  /\ create' = [pc |-> "done", opts |-> create.opts,
                outcome |-> getContractAddress(create.opts)]
  /\ UNCHANGED exceptCreate

NextCreate == GetContractAddress

SpecCreate == InitCreate /\ [][NextCreate]_vars

\* C17: unless opcode is 'CREATE2' the address is the checksummed last 20
\* bytes of keccak256(rlp([from, nonce])) with the nonce in minimal big-endian
\* form, no leading zero byte and 0 as the empty byte string; the CREATE2
\* derivation (0xff, from, salt, hash of the bytecode) is used only when
\* opcode is 'CREATE2'.
CreateAddressDerivation ==
  create.pc = "done" =>
    LET opts == create.opts
        out == create.outcome
    IN IF opts.opcode = Some("CREATE2")
         THEN out.state = "returned" =>
                LET pre == out.address[1].bytes.last20of IN
                /\ pre.thenHashOf = opts.bytecode
                /\ Len(pre.keccak256) = 53
                /\ pre.keccak256[1] = 255
                /\ SubSeq(pre.keccak256, 2, 21) = opts.from.bytes
         ELSE /\ out.state = "returned"
              /\ out.address[1].checksummed
              /\ LET pre == out.address[1].bytes.last20of
                     item == fromRlp(pre.keccak256)
                 IN /\ pre.thenHashOf = Undefined
                    /\ item.ok
                    /\ item.next = Len(pre.keccak256)
                    /\ item.item[1].kind = "list"
                    /\ Len(item.item[1].items) = 2
                    /\ item.item[1].items[1] = RlpBytes(opts.from.bytes)
                    /\ item.item[1].items[2].kind = "bytes"
                    /\ LET nonce == item.item[1].items[2].bytes IN
                       /\ nonce # << >> => nonce[1] # 0
                       /\ BytesToNumber(nonce) = opts.nonce
                       /\ opts.nonce = 0 <=> nonce = << >>

\* C17 witness: the address of nonce 0 was derived without opcode, from the
\* RLP list of the sender and the empty byte string
CreateAddressDerivationWitness ==
  /\ create.pc = "done"
  /\ create.opts.opcode = Undefined
  /\ create.opts.nonce = 0
  /\ create.outcome.state = "returned"
  /\ create.outcome.address[1].bytes.last20of.keccak256
       = <<214, 148>> \o create.opts.from.bytes \o <<128>>

\* ============================================================ sendTransaction
\* A chain option is absent (undefined), null, or a chain with an id.
NoChain == [kind |-> "undefined", id |-> 0]
NullChain == [kind |-> "null", id |-> 0]
ChainOf(id) == [kind |-> "chain", id |-> id]

\* An account option is absent, an address (a JSON-RPC account given as
\* text), or an account object of type 'local' or 'json-rpc'.
NoAccount == [type |-> "undefined", address |-> ""]
AccountOf(type, address) == [type |-> type, address |-> address]

\* parseAccount(account): an address becomes a JSON-RPC account
parseAccount(account) ==
  IF account.type = "address" THEN AccountOf("json-rpc", account.address) ELSE account

\* getTransactionError(err, {...args, account, chain})
getTransactionError(err) ==
  [name |-> "TransactionExecutionError",
   cause |-> IF containsNodeError(err) THEN getNodeError(err) ELSE err]

\* assertRequest(args): the address of `to` is checked
assertRequest(args) ==
  IF args.to = "invalid" THEN Some(Err("InvalidAddressError")) ELSE Undefined

\* mutant: only the argument is looked at, not the account of the client
accountOfArgsOnly(client, args) == args.account

\* `account: account_ = client.account`
accountOf(client, args) ==
  IF args.account.type = "undefined" THEN client.account ELSE args.account

\* `chain = client.chain`: null is kept, only undefined takes the default
chainOf(client, args) ==
  IF args.chain.kind = "undefined" THEN client.chain ELSE args.chain

\* mutant: a missing chain is not checked
assertChainSkipsMissing(chain, chainId) ==
  IF chain.kind = "chain" /\ chainId # chain.id
    THEN Some(Err("ChainMismatchError"))
  ELSE Undefined

\* the chain check (sendTransaction.ts:129-132): the error thrown, if any
assertChain(chain, chainId) ==
  IF chain.kind # "null" /\ (chain.kind = "undefined" \/ chainId # chain.id)
    THEN IF chain.kind = "undefined" THEN Some(Err("ChainNotFoundError"))
         ELSE Some(Err("ChainMismatchError"))
  ELSE Undefined

TxClients ==
  [account : {NoAccount, AccountOf("local", "0xl0"), AccountOf("json-rpc", "0xj0")},
   chain : {NoChain, ChainOf(1)}]

TxArgs ==
  [account : {NoAccount, AccountOf("local", "0xl1"), AccountOf("address", "0xj1")},
   chain : {NoChain, NullChain, ChainOf(1), ChainOf(5)},
   to : {AddrA, "invalid"}]

\* the chain ids the wallet may report
WalletChainIds == {1, 5}

\* what a collaborator (transport, prepareRequest, signer) may answer
TxResponses ==
  { [kind |-> "error", error |-> e, chainId |-> 0] : e \in TransportErrors }
  \cup { [kind |-> "ok", error |-> Err(""), chainId |-> id] : id \in WalletChainIds }

TxRejected(error) == [state |-> "rejected", error |-> error]

\* sendTransaction(client, args), up to `await getChainId(client)`
SendTransaction(client, args) ==
  /\ tx.pc = "idle"
  /\ LET account_ == accountOf(client, args)
         base == [client |-> client, args |-> args, requests |-> << >>,
                  signs |-> << >>, prepares |-> 0]
     IN tx' =
          IF account_.type = "undefined"
            THEN base @@ [pc |-> "done",
                          outcome |-> TxRejected(Err("AccountNotFoundError"))]
          ELSE IF IsDefined(assertRequest(args))
            THEN base @@ [pc |-> "done", account |-> parseAccount(account_),
                          outcome |-> TxRejected(getTransactionError(
                                                   Get(assertRequest(args))))]
          ELSE [base EXCEPT !.requests = <<[method |-> "eth_chainId", from |-> "",
                                            raw |-> 0]>>]
               @@ [pc |-> "getChainId", account |-> parseAccount(account_)]
  /\ UNCHANGED exceptTx

\* after `await getChainId(client)`: the chain check, then prepareRequest for
\* a local account, else the eth_sendTransaction request
ChainIdReturn(resp) ==
  /\ tx.pc = "getChainId"
  /\ LET chain == chainOf(tx.client, tx.args)
         failed == IF resp.kind = "error" THEN Some(resp.error)
                   ELSE assertChain(chain, resp.chainId)
         seen == [k \in (DOMAIN tx) \ {"pc"} |-> tx[k]]
     IN tx' =
          IF IsDefined(failed)
            THEN seen @@ [pc |-> "done", chainId |-> resp.chainId,
                          outcome |-> TxRejected(getTransactionError(Get(failed)))]
          ELSE IF tx.account.type = "local"
            THEN [seen EXCEPT !.prepares = 1]
                 @@ [pc |-> "prepareRequest", chainId |-> resp.chainId]
          ELSE [seen EXCEPT !.requests =
                  Append(tx.requests, [method |-> "eth_sendTransaction",
                                       from |-> tx.account.address, raw |-> 0])]
               @@ [pc |-> "request", chainId |-> resp.chainId]
  /\ UNCHANGED exceptTx

\* after `await prepareRequest(...)`: account.signTransaction is called
PrepareReturn(resp) ==
  /\ tx.pc = "prepareRequest"
  /\ LET seen == [k \in (DOMAIN tx) \ {"pc"} |-> tx[k]] IN
     tx' = IF resp.kind = "error"
             THEN seen @@ [pc |-> "done",
                           outcome |-> TxRejected(getTransactionError(resp.error))]
             ELSE [seen EXCEPT !.signs =
                     Append(tx.signs, [chainId |-> tx.chainId,
                                       from |-> tx.account.address])]
                  @@ [pc |-> "signTransaction"]
  /\ UNCHANGED exceptTx

\* after `await account.signTransaction(...)`: the signed payload is sent
SignReturn(resp) ==
  /\ tx.pc = "signTransaction"
  /\ LET seen == [k \in (DOMAIN tx) \ {"pc"} |-> tx[k]] IN
     tx' = IF resp.kind = "error"
             THEN seen @@ [pc |-> "done",
                           outcome |-> TxRejected(getTransactionError(resp.error))]
             ELSE [seen EXCEPT !.requests =
                     Append(tx.requests, [method |-> "eth_sendRawTransaction",
                                          from |-> "", raw |-> Len(tx.signs)])]
                  @@ [pc |-> "request"]
  /\ UNCHANGED exceptTx

\* after `await client.request(...)`: the hash, or the wrapped error
RequestReturn(resp) ==
  /\ tx.pc = "request"
  /\ LET seen == [k \in (DOMAIN tx) \ {"pc"} |-> tx[k]] IN
     tx' = seen @@ [pc |-> "done",
                    outcome |-> IF resp.kind = "error"
                                  THEN TxRejected(getTransactionError(resp.error))
                                  ELSE [state |-> "fulfilled", hash |-> "0xhash"]]
  /\ UNCHANGED exceptTx

NextTx ==
  \/ \E client \in TxClients, args \in TxArgs : SendTransaction(client, args)
  \/ \E resp \in TxResponses : ChainIdReturn(resp)
  \/ \E resp \in TxResponses : PrepareReturn(resp)
  \/ \E resp \in TxResponses : SignReturn(resp)
  \/ \E resp \in TxResponses : RequestReturn(resp)

SpecTx == Init /\ [][NextTx]_vars

\* the requests of a transaction that sign or submit it
TxSends ==
  { j \in 1..Len(tx.requests) :
      tx.requests[j].method \in {"eth_sendRawTransaction", "eth_sendTransaction"} }

TxStarted == tx.pc # "idle"
TxChecked == TxStarted /\ "chainId" \in DOMAIN tx /\ tx.chainId # 0

\* C18: a transaction is signed or submitted only if `chain` is null or the
\* chain id reported by the wallet equals chain.id; with chain undefined
\* (neither passed nor set on the client) it fails with ChainNotFoundError,
\* with different ids with ChainMismatchError, in both cases without any
\* signing or send request; chain: null bypasses the check.
ChainAsserted ==
  TxStarted =>
    LET chain == chainOf(tx.client, tx.args) IN
    /\ (TxSends # {} \/ tx.signs # << >> \/ tx.prepares # 0) =>
         /\ TxChecked
         /\ chain.kind = "null" \/ (chain.kind = "chain" /\ chain.id = tx.chainId)
    /\ (TxChecked /\ chain.kind = "undefined") =>
         /\ tx.args.chain = NoChain /\ tx.client.chain = NoChain
         /\ tx.pc = "done"
         /\ tx.outcome.state = "rejected"
         /\ tx.outcome.error.cause.name = "ChainNotFoundError"
         /\ TxSends = {} /\ tx.signs = << >>
    /\ (TxChecked /\ chain.kind = "chain" /\ chain.id # tx.chainId) =>
         /\ tx.pc = "done"
         /\ tx.outcome.state = "rejected"
         /\ tx.outcome.error.cause.name = "ChainMismatchError"
         /\ TxSends = {} /\ tx.signs = << >>
    /\ (TxChecked /\ tx.pc = "done" /\ tx.outcome.state = "rejected"
        /\ tx.outcome.error.cause.name \in {"ChainNotFoundError", "ChainMismatchError"}) =>
         chain.kind # "null"
    /\ (TxChecked /\ chain.kind = "null") =>
         TxSends # {} \/ tx.prepares # 0

\* C18 witness: with chain: null a transaction was submitted and accepted
\* although the wallet is on another chain than the client
ChainAssertedWitness ==
  /\ tx.pc = "done"
  /\ TxChecked
  /\ tx.args.chain = NullChain
  /\ tx.client.chain = ChainOf(1)
  /\ tx.chainId = 5
  /\ tx.outcome.state = "fulfilled"
  /\ TxSends # {}

\* C19: with a local account the request is prepared, signed with
\* account.signTransaction and the signed payload submitted with
\* eth_sendRawTransaction, never eth_sendTransaction; with a JSON-RPC account
\* eth_sendTransaction is submitted with from = account.address and nothing
\* is signed; with no account (neither argument nor client.account)
\* AccountNotFoundError is thrown before any request, not wrapped by
\* getTransactionError.
RoutedByAccount ==
  TxStarted =>
    LET given == IF tx.args.account.type # "undefined" THEN tx.args.account
                 ELSE tx.client.account
        none == tx.args.account.type = "undefined" /\ tx.client.account.type = "undefined"
    IN /\ none <=> (tx.pc = "done" /\ tx.outcome.state = "rejected"
                    /\ tx.outcome.error.name = "AccountNotFoundError")
       /\ none => tx.requests = << >> /\ tx.signs = << >> /\ tx.prepares = 0
       /\ (~none /\ given.type = "local") =>
            /\ \A j \in TxSends :
                 /\ tx.requests[j].method = "eth_sendRawTransaction"
                 /\ tx.requests[j].raw = 1
                 /\ Len(tx.signs) = 1
                 /\ tx.signs[1].from = given.address
                 /\ tx.prepares = 1
            /\ tx.signs # << >> => tx.prepares = 1
            /\ (tx.pc = "done" /\ tx.outcome.state = "fulfilled") =>
                 TxSends # {} /\ Len(tx.signs) = 1
       /\ (~none /\ given.type # "local") =>
            /\ tx.signs = << >> /\ tx.prepares = 0
            /\ \A j \in TxSends :
                 /\ tx.requests[j].method = "eth_sendTransaction"
                 /\ tx.requests[j].from = given.address
            /\ (tx.pc = "done" /\ tx.outcome.state = "fulfilled") => TxSends # {}
       /\ Cardinality(TxSends) <= 1

\* C19 witness: the local account of the client signed the transaction of a
\* call without account argument, and the signed payload was accepted
RoutedByAccountWitness ==
  /\ tx.pc = "done"
  /\ tx.args.account = NoAccount
  /\ tx.client.account.type = "local"
  /\ Len(tx.signs) = 1
  /\ Len(tx.requests) = 2
  /\ tx.requests[2].method = "eth_sendRawTransaction"
  /\ tx.outcome.state = "fulfilled"

\* ---------------------------------------------------------------------------
\* watchPendingTransactions (src/src/actions/public/watchPendingTransactions.ts)
\* ---------------------------------------------------------------------------

\* number of pending transaction hashes the node sees during one watch
MaxHashes == 3

\* number of poll ticks after the one that installs the filter
MaxTicks == 3

\* the parameters of a call: batch and poll may be left out, the transport of
\* the client is http or webSocket
WatchArgs ==
  [ batch : {"undefined", "true", "false"},
    poll : {"undefined", "true", "false"},
    transport : {"http", "webSocket"} ]

\* batch = true by default
batchOf(args) == IF args.batch = "undefined" THEN TRUE ELSE args.batch = "true"

\* poll when asked to, and by default on every transport but webSocket
enablePolling(args) ==
  IF args.poll # "undefined" THEN args.poll = "true"
  ELSE args.transport # "webSocket"

\* the answers of the node to a request of the watcher
WatchResponses == {"ok", "error"}

\* the invocations of onTransactions one tick makes for the hashes it found,
\* without the guard on an empty answer
emitTransactionsEvenEmpty(batch, hashes) ==
  IF batch THEN << hashes >>
  ELSE [ i \in 1..Len(hashes) |-> << hashes[i] >> ]

\* the invocations of onTransactions one tick makes for the hashes it found
emitTransactions(batch, hashes) ==
  IF Len(hashes) = 0 THEN << >>
  ELSE IF batch THEN << hashes >>
  ELSE [ i \in 1..Len(hashes) |-> << hashes[i] >> ]

\* the invocations as the watcher records them: the hashes handed over and the
\* answer of getFilterChanges they come from (0 for a subscription)
Emitted(batch, hashes, answer) ==
  [ i \in 1..Len(emitTransactions(batch, hashes)) |->
      [ tick |-> answer, hashes |-> emitTransactions(batch, hashes)[i] ] ]

\* mutant: every tick asks the filter for its changes
tickRequestAlwaysChanges(filter) == "eth_getFilterChanges"

\* the request a poll tick makes: the filter is created when there is none
\* yet, otherwise it is asked for its changes
tickRequest(filter) ==
  IF ~filter THEN "eth_newPendingTransactionFilter" ELSE "eth_getFilterChanges"

\* mutant: no failed request stops the polling
stopsPollingNever(request) == FALSE

\* the failed requests after which the tick stops the polling (unwatch())
stopsPolling(request) == request = "eth_newPendingTransactionFilter"

\* mutant: the subscription hands over data whether or not it is active
onDataAlways(active, transaction) ==
  << [ tick |-> 0, hashes |-> << transaction >> ] >>

\* onData of the subscription: an active watcher hands the hash over alone
onData(active, transaction) ==
  IF ~active THEN << >> ELSE << [ tick |-> 0, hashes |-> << transaction >> ] >>

InitWatch ==
  /\ InitCall
  /\ codec = Idle /\ rlp = Idle /\ sig = Idle /\ create = Idle /\ tx = Idle
  /\ \E args \in WatchArgs :
       watch = [ pc |-> "input", args |-> args, batch |-> batchOf(args),
                 polling |-> enablePolling(args), filter |-> FALSE,
                 installed |-> FALSE, active |-> FALSE, listening |-> FALSE,
                 stopped |-> FALSE, stoppedIn |-> "", uninstalling |-> FALSE,
                 pending |-> << >>, seen |-> 0,
                 returned |-> << >>, late |-> << >>, onTransactions |-> << >>,
                 onError |-> 0, ticks |-> 0, log |-> << >> ]

\* what a tick leaves in the log: its request, whether it succeeded, whether
\* the callbacks of the watcher were registered when it returned, and the
\* invocations of onTransactions and onError it made
Tick(request, ok, heard, transactions, errors) ==
  [ request |-> request, ok |-> ok, heard |-> heard,
    transactions |-> transactions, errors |-> errors ]

\* watchPendingTransactions(client, args): poll mode registers the callbacks
\* and runs its first tick at once (emitOnBegin); otherwise it subscribes
WatchPendingTransactions ==
  /\ watch.pc = "input"
  /\ watch' = [ watch EXCEPT
                  !.pc = IF ~watch.polling THEN "subscribing"
                         ELSE IF tickRequest(watch.filter) = "eth_getFilterChanges"
                           THEN "fetching" ELSE "creating",
                  !.listening = watch.polling,
                  !.active = TRUE ]
  /\ UNCHANGED exceptWatch

\* createPendingTransactionFilter returns: the filter is kept and the tick
\* ends, or the tick stops the polling and reports the error
FilterReturn(resp) ==
  /\ watch.pc = "creating"
  /\ LET request == "eth_newPendingTransactionFilter"
         errors == IF watch.listening THEN 1 ELSE 0
     IN watch' =
          IF resp = "ok"
          THEN [ watch EXCEPT
                   !.pc = "waiting", !.filter = TRUE, !.installed = TRUE,
                   !.log = Append(@, Tick(request, TRUE, watch.listening, 0, 0)) ]
          ELSE [ watch EXCEPT
                   !.pc = "waiting",
                   !.active = IF stopsPolling(request) THEN FALSE ELSE @,
                   !.onError = @ + errors,
                   !.log = Append(@, Tick(request, FALSE, watch.listening,
                                          0, errors)) ]
  /\ UNCHANGED exceptWatch

\* the node sees a new pending transaction: an installed filter keeps its hash
\* until it is asked for its changes
NodeSees ==
  /\ watch.pc \notin {"idle", "input"}
  /\ watch.seen < MaxHashes
  /\ watch.installed
  /\ watch' = [ watch EXCEPT !.seen = @ + 1,
                             !.pending = Append(@, watch.seen + 1) ]
  /\ UNCHANGED exceptWatch

\* the polling interval has passed and the polling has not been stopped: the
\* next tick creates the filter or asks it for its changes
PollTick ==
  /\ watch.pc = "waiting"
  /\ watch.active
  /\ watch.ticks < MaxTicks
  /\ watch' = [ watch EXCEPT
                  !.pc = IF tickRequest(watch.filter) = "eth_getFilterChanges"
                         THEN "fetching" ELSE "creating",
                  !.ticks = @ + 1 ]
  /\ UNCHANGED exceptWatch

\* getFilterChanges returns: nothing is emitted for no hashes, one invocation
\* with all of them when batching, one per hash otherwise; a failure is
\* reported to onError; what is emitted reaches the callbacks only while they
\* are registered. The node answers for a filter it has, and fails otherwise
ChangesReturn(resp) ==
  /\ watch.pc = "fetching"
  /\ resp = "ok" => watch.installed
  /\ LET request == "eth_getFilterChanges"
         emitted == IF watch.listening
                      THEN Emitted(watch.batch, watch.pending,
                                   Len(watch.returned) + 1)
                      ELSE << >>
         errors == IF watch.listening THEN 1 ELSE 0
     IN watch' =
          IF resp = "ok"
          THEN [ watch EXCEPT
                   !.pc = "waiting",
                   !.pending = << >>,
                   !.returned = IF watch.listening
                                  THEN Append(@, watch.pending) ELSE @,
                   !.late = IF watch.listening
                              THEN @ ELSE Append(@, watch.pending),
                   !.onTransactions = @ \o emitted,
                   !.log = Append(@, Tick(request, TRUE, watch.listening,
                                          Len(emitted), 0)) ]
          ELSE [ watch EXCEPT
                   !.pc = "waiting",
                   !.active = IF stopsPolling(request) THEN FALSE ELSE @,
                   !.onError = @ + errors,
                   !.log = Append(@, Tick(request, FALSE, watch.listening,
                                          0, errors)) ]
  /\ UNCHANGED exceptWatch

\* the function poll mode returns: the callbacks are taken off, then the
\* filter, if there is one, is uninstalled before the polling is stopped
Unwatch ==
  /\ watch.pc \in {"creating", "fetching", "waiting"}
  /\ watch.polling
  /\ ~watch.stopped
  /\ watch' = [ watch EXCEPT
                  !.stopped = TRUE,
                  !.stoppedIn = watch.pc,
                  !.listening = FALSE,
                  !.uninstalling = watch.filter,
                  !.active = IF watch.filter THEN @ ELSE FALSE ]
  /\ UNCHANGED exceptWatch

\* uninstallFilter returns: the polling is stopped; when it fails the
\* function never reaches unwatch()
UninstallReturn(resp) ==
  /\ watch.pc \notin {"idle", "input"}
  /\ watch.uninstalling
  /\ watch' = IF resp = "ok"
              THEN [ watch EXCEPT !.uninstalling = FALSE, !.installed = FALSE,
                                  !.pending = << >>, !.active = FALSE ]
              ELSE [ watch EXCEPT !.uninstalling = FALSE ]
  /\ UNCHANGED exceptWatch

\* transport.subscribe returns: the subscription is live (and is given up at
\* once when the watcher has been stopped meanwhile), or the error is reported
SubscribeReturn(resp) ==
  /\ watch.pc = "subscribing"
  /\ watch' = IF resp = "ok"
              THEN [ watch EXCEPT !.pc = "subscribed" ]
              ELSE [ watch EXCEPT !.pc = "stopped", !.onError = @ + 1 ]
  /\ UNCHANGED exceptWatch

\* a data event of the subscription arrives
OnData ==
  /\ watch.pc = "subscribed"
  /\ watch.seen < MaxHashes
  /\ watch' = [ watch EXCEPT
                  !.seen = @ + 1,
                  !.onTransactions = @ \o onData(watch.active, watch.seen + 1),
                  !.late = IF watch.active THEN @
                           ELSE Append(@, << watch.seen + 1 >>) ]
  /\ UNCHANGED exceptWatch

\* the function subscribe mode returns, called before or after the
\* subscription is live: the watcher is no longer active
Unsubscribe ==
  /\ watch.pc \in {"subscribing", "subscribed"}
  /\ ~watch.polling
  /\ ~watch.stopped
  /\ watch' = [ watch EXCEPT !.stopped = TRUE, !.stoppedIn = watch.pc,
                             !.active = FALSE ]
  /\ UNCHANGED exceptWatch

NextWatch ==
  \/ WatchPendingTransactions
  \/ \E resp \in WatchResponses : FilterReturn(resp)
  \/ NodeSees
  \/ PollTick
  \/ \E resp \in WatchResponses : ChangesReturn(resp)
  \/ Unwatch
  \/ \E resp \in WatchResponses : UninstallReturn(resp)
  \/ \E resp \in WatchResponses : SubscribeReturn(resp)
  \/ OnData
  \/ Unsubscribe

SpecWatch == InitWatch /\ [][NextWatch]_vars

\* the hashes of a sequence of hash lists, in order
RECURSIVE Flatten(_)
Flatten(lists) ==
  IF lists = << >> THEN << >> ELSE Head(lists) \o Flatten(Tail(lists))

\* the arguments of the invocations of onTransactions made for one answer of
\* getFilterChanges
InvokedFor(k) ==
  LET made == SelectSeq(watch.onTransactions, LAMBDA c : c.tick = k)
  IN  [ i \in 1..Len(made) |-> made[i].hashes ]

\* the arguments of all invocations of onTransactions
Invoked ==
  [ i \in 1..Len(watch.onTransactions) |-> watch.onTransactions[i].hashes ]

\* C20: in poll mode, a tick whose answer holds n > 0 hashes invokes
\* onTransactions once with all n hashes in order when batch is true (the
\* default), n times with one hash each in order when batch is false, and
\* not at all when n = 0; every hash the filter returned is handed over
\* exactly once
PollEmission ==
  (watch.pc \notin {"idle", "input"} /\ watch.polling) =>
    /\ \A k \in 1..Len(watch.returned) :
         LET hashes == watch.returned[k]
             n == Len(hashes)
         IN  /\ (n > 0 /\ watch.batch) => InvokedFor(k) = << hashes >>
             /\ (n > 0 /\ ~watch.batch) =>
                  /\ Len(InvokedFor(k)) = n
                  /\ \A i \in 1..n : InvokedFor(k)[i] = << hashes[i] >>
             /\ n = 0 => InvokedFor(k) = << >>
    /\ (watch.args.batch = "undefined") => watch.batch
    /\ Flatten(Invoked) = Flatten(watch.returned)
    /\ \A i, j \in 1..Len(Flatten(Invoked)) :
         i # j => Flatten(Invoked)[i] # Flatten(Invoked)[j]

\* C20 witness: without batching, one tick found two hashes and handed them
\* over in two invocations, and another tick found none
PollEmissionWitness ==
  /\ watch.pc = "waiting"
  /\ watch.polling
  /\ ~watch.batch
  /\ \E k \in 1..Len(watch.returned) :
       /\ Len(watch.returned[k]) = 2
       /\ Len(InvokedFor(k)) = 2
  /\ \E k \in 1..Len(watch.returned) : watch.returned[k] = << >>

\* ---------------------------------------------------------------------------
\* call(): the choice between the batch path and the direct eth_call
\* ---------------------------------------------------------------------------

\* number of call() invocations explored with the inputs below
MaxRouteCalls == 2

\* a call that is batched on client c1
RouteBase == CallArgs("c1", Undefined, Undefined, Some(AddrA), Some(<<1>>))

\* calls that differ from it in one respect: batching switched off or on,
\* no data, data '0x', no target, gas, an account, data that is itself an
\* aggregate3 call, a function without return data, a block number, and
\* clients without chain, without multicall3 (at the latest block and at
\* block 1) and without batch option
RouteInputs ==
  { RouteBase,
    [RouteBase EXCEPT !.batch = Some(FALSE)],
    [RouteBase EXCEPT !.data = Undefined],
    [RouteBase EXCEPT !.data = Some(<< >>)],
    [RouteBase EXCEPT !.to = Undefined],
    [RouteBase EXCEPT !.gas = Some(1)],
    [RouteBase EXCEPT !.account = Some("0xacc")],
    [RouteBase EXCEPT !.data = Some(aggregate3Signature \o <<1>>)],
    [RouteBase EXCEPT !.data = Some(ReturnsNothing)],
    [RouteBase EXCEPT !.data = Some(ReturnsNothing), !.batch = Some(FALSE)],
    [RouteBase EXCEPT !.blockNumber = Some(0)],
    [RouteBase EXCEPT !.blockNumber = Some(0), !.batch = Some(FALSE)],
    [RouteBase EXCEPT !.blockNumber = Some(1), !.gas = Some(1)],
    [RouteBase EXCEPT !.client = "c3"],
    [RouteBase EXCEPT !.client = "c4"],
    [RouteBase EXCEPT !.client = "c4", !.blockNumber = Some(1)],
    [RouteBase EXCEPT !.client = "c5"],
    [RouteBase EXCEPT !.client = "c5", !.batch = Some(TRUE)] }

RouteCall(a) ==
  /\ Len(calls) < MaxRouteCalls
  /\ Call(a)

NextRoute ==
  \/ \E a \in RouteInputs : RouteCall(a)
  \/ Yield
  \/ \E n \in 1..Len(timers) : TimerFire(n)
  \/ \E k \in 1..Len(invocations) :
       \E resp \in AggregateResponses(invocations[k].request) : ExecutorReturn(k, resp)
  \/ \E i \in 1..Len(calls) :
       /\ direct[i].state = "inflight"
       /\ \E resp \in DirectResponses(direct[i].request.request) : DirectReturn(i, resp)

SpecRoute == Init /\ [][NextRoute]_vars

\* call i is one of the requests handed to the scheduler: waiting in a
\* bucket or a member of an executor invocation
InScheduler(i) ==
  \/ \E id \in DOMAIN schedulerCache :
       \E j \in 1..Len(schedulerCache[id]) : schedulerCache[id][j].pendingPromise = i
  \/ \E k \in 1..Len(invocations) : i \in Members(invocations[k])

\* batching is enabled for a call: args.batch, by default whether the client
\* has the batch.multicall option
BatchEnabled(a) ==
  IF IsDefined(a.batch) THEN Get(a.batch)
  ELSE a.client \in {"c1", "c2", "c3", "c4"}

\* the request of a call can be batched: it has data and a target, is not an
\* aggregate3 call, and has no other property
Batchable(a) ==
  /\ IsDefined(a.data)
  /\ IsDefined(a.to)
  /\ ~IsPrefix(aggregate3Signature, Get(a.data))
  /\ ~IsDefined(a.account)
  /\ ~IsDefined(a.gas)

NoMulticallAddress(a) == a.client \in {"c3", "c4"}

\* the block parameter the arguments of a call ask for
AskedBlock(a) ==
  IF IsDefined(a.blockNumber) /\ Get(a.blockNumber) > 0
    THEN [tag |-> "", hex |-> HexDigits(Get(a.blockNumber))]
    ELSE [tag |-> OrElse(a.blockTag, "latest"), hex |-> << >>]

\* C23: when the batch path fails because no multicall address can be
\* resolved, call() makes one direct eth_call with the same request and block
\* parameter and returns its result; a failed executor and a reverted entry
\* are rethrown wrapped by getCallError, without a direct eth_call
BatchFallback ==
  \A i \in 1..Len(calls) :
    /\ (meta[i].tried /\ NoMulticallAddress(calls[i])) =>
         /\ meta[i].path = "direct"
         /\ promise[i].state = "none" /\ ~InScheduler(i)
         /\ direct[i].state \in {"inflight", "done"}
         /\ direct[i].request =
              [method |-> "eth_call",
               request |-> [from |-> calls[i].account, data |-> calls[i].data,
                            to |-> calls[i].to, gas |-> calls[i].gas],
               block |-> AskedBlock(calls[i])]
         /\ direct[i].state = "inflight" => result[i].state = "pending"
         /\ (direct[i].state = "done" /\ direct[i].response.kind = "data") =>
              /\ result[i].state = "fulfilled"
              /\ result[i].value.data \in {Undefined, Some(direct[i].response.data)}
         /\ (direct[i].state = "done" /\ direct[i].response.kind = "error") =>
              /\ result[i].state = "rejected"
              /\ result[i].error.name = "CallExecutionError"
    /\ (meta[i].tried /\ ~NoMulticallAddress(calls[i])) =>
         /\ meta[i].path = "batch"
         /\ direct[i].state = "none"
         /\ promise[i].state = "rejected" =>
              /\ result[i].state = "rejected"
              /\ result[i].error.name = "CallExecutionError"
              /\ result[i].error.cause \in
                   {promise[i].error, getNodeError(promise[i].error)}
              /\ result[i].error.args = calls[i]
         /\ (promise[i].state = "fulfilled" /\ ~promise[i].value[1].success) =>
              /\ result[i].state = "rejected"
              /\ result[i].error.name = "CallExecutionError"
              /\ result[i].error.cause.name = "RawContractError"
              /\ result[i].error.cause.data = promise[i].value[1].returnData
              /\ result[i].error.args = calls[i]

\* C23 witness: the call of a client whose chain has no multicall3 contract
\* returned the answer of its direct eth_call, and a batched call of another
\* client was rejected for a reverted entry
BatchFallbackWitness ==
  /\ Len(calls) = 2
  /\ calls[1].client = "c4" /\ meta[1].tried
  /\ direct[1].state = "done"
  /\ result[1].state = "fulfilled" /\ IsDefined(result[1].value.data)
  /\ meta[2].path = "batch"
  /\ promise[2].state = "fulfilled" /\ ~promise[2].value[1].success
  /\ result[2].state = "rejected"

\* the calls that returned successfully on the batch path and on the direct
\* path, and the bytes the node returned for them
BatchSuccesses ==
  { i \in 1..Len(calls) :
      /\ meta[i].path = "batch"
      /\ promise[i].state = "fulfilled"
      /\ promise[i].value[1].success }

DirectSuccesses ==
  { i \in 1..Len(calls) :
      /\ meta[i].path = "direct"
      /\ direct[i].state = "done"
      /\ direct[i].response.kind = "data" }

ReturnBytes(i) ==
  IF meta[i].path = "batch" THEN promise[i].value[1].returnData
  ELSE direct[i].response.data

\* C24: a successful call returns { data: undefined } exactly when the
\* returned bytes are '0x' and { data: bytes } otherwise, on the batch path as
\* on the direct path, so two calls that got the same bytes return the same
\* value whichever path they took
SamePathValue ==
  /\ \A i \in BatchSuccesses \cup DirectSuccesses :
       /\ result[i].state = "fulfilled"
       /\ (result[i].value.data = Undefined) <=> (ReturnBytes(i) = << >>)
       /\ ReturnBytes(i) # << >> => result[i].value = [data |-> Some(ReturnBytes(i))]
  /\ \A i \in BatchSuccesses : \A j \in DirectSuccesses :
       ReturnBytes(i) = ReturnBytes(j) => result[i] = result[j]

\* C24 witness: a batched call and the same call with batching switched off
\* both got '0x' from the node and both returned { data: undefined }
SamePathValueWitness ==
  /\ Len(calls) = 2
  /\ 1 \in BatchSuccesses /\ 2 \in DirectSuccesses
  /\ calls[2] = [calls[1] EXCEPT !.batch = Some(FALSE)]
  /\ ReturnBytes(1) = << >> /\ ReturnBytes(2) = << >>
  /\ result[1].value = [data |-> Undefined]
  /\ result[2].value = [data |-> Undefined]

\* C25 as stated: whenever blockNumber is supplied, 0 included, its hex
\* encoding is the block parameter of the direct eth_call, of the aggregated
\* eth_call and of the scheduling key, and the blockTag is used only when no
\* blockNumber is supplied
BlockNumberHonoured ==
  \A i \in 1..Len(calls) :
    /\ direct[i].state # "none" => direct[i].request.block = BlockRef(calls[i])
    /\ meta[i].path = "batch" =>
         /\ meta[i].id = <<calls[i].client, BlockRef(calls[i])>>
         /\ \A k \in 1..Len(invocations) :
              i \in Members(invocations[k]) =>
                invocations[k].request.block = BlockRef(calls[i])

Creations ==
  { k \in 1..Len(watch.log) :
      watch.log[k].request = "eth_newPendingTransactionFilter" }

Created == { k \in Creations : watch.log[k].ok }

FailedTicks ==
  { k \in 1..Len(watch.log) : ~watch.log[k].ok /\ watch.log[k].heard }

RECURSIVE LoggedErrors(_)
LoggedErrors(log) ==
  IF log = << >> THEN 0 ELSE Head(log).errors + LoggedErrors(Tail(log))

\* C27: the errors of a polling watcher end in onError: a failed filter
\* creation stops the polling, no tick follows it and onError has been invoked
\* exactly once; a failed eth_getFilterChanges invokes onError once and
\* onTransactions not at all for that tick, and the polling goes on, the next
\* tick asking the same filter for its changes
PollErrorsReported ==
  (watch.pc \notin {"idle", "input"} /\ watch.polling) =>
    /\ watch.onError = LoggedErrors(watch.log)
    /\ \A k \in FailedTicks :
         /\ watch.log[k].errors = 1
         /\ watch.log[k].transactions = 0
         /\ watch.log[k].request = "eth_newPendingTransactionFilter" =>
              /\ k = Len(watch.log)
              /\ watch.pc = "waiting"
              /\ ~watch.active
              /\ ~watch.filter
              /\ watch.onError = 1
         /\ watch.log[k].request = "eth_getFilterChanges" =>
              /\ watch.filter
              /\ k < Len(watch.log) =>
                   watch.log[k + 1].request = "eth_getFilterChanges"
              /\ (k = Len(watch.log) /\ ~watch.stopped) =>
                   /\ watch.active
                   /\ watch.pc \in {"waiting", "fetching"}

\* C27 witness: a tick whose eth_getFilterChanges failed was reported to
\* onError, and the next tick got hashes from the same filter and handed
\* them over
PollErrorsReportedWitness ==
  /\ watch.pc = "waiting"
  /\ watch.polling /\ ~watch.stopped
  /\ Len(watch.log) = 3
  /\ 2 \in FailedTicks
  /\ watch.log[2].request = "eth_getFilterChanges"
  /\ watch.onError = 1
  /\ watch.log[3].ok /\ watch.log[3].transactions > 0

====
